---- MODULE Spec2Model ----
(***************************************************************************)
(* Auto-Claude: the agent process orchestrator (AgentManager) and the      *)
(* usage monitor (UsageMonitor).                                           *)
(*                                                                         *)
(* SpecAgent   : AgentManager - start operations, restartTask, the 500 ms  *)
(*               restart timer, the 'exit' handler and its 1000 ms cleanup *)
(*               timer, over a model clock.                                *)
(* SpecMonitor : UsageMonitor - start/stop, timer ticks, forceRefresh and  *)
(*               the asynchronous fetch cycle.                             *)
(* SpecAggregate : calculateLocalUsage (local-usage-calculator.ts) over the *)
(*               JSONL files of the project directories.                   *)
(***************************************************************************)
EXTENDS Integers, Naturals, Sequences, FiniteSets, TLC

VARIABLES
    taskExecutionContext, \* AgentManager.taskExecutionContext : task id -> context | NoContext
    processes,            \* AgentState process table: task id -> is a worker registered
    killedExits,          \* per task: killed workers whose 'exit' event is still to come
    restartTimers,        \* pending 500 ms callbacks armed by restartTask, in arming order
    cleanupTimers,        \* pending 1000 ms callbacks armed by the 'exit' handler, in arming order
    restartsOk,           \* history: restartTask calls that returned true for the current entry
    last,                 \* the orchestrator operation performed by the latest step
    activeProfile,        \* ClaudeProfileManager active profile id (NoProfile when none)
    intervalId,           \* UsageMonitor.intervalId is not null
    liveIntervals,        \* repeating timers installed by setInterval and not cleared
    currentUsage,         \* UsageMonitor.currentUsage (NoUsage when null)
    isChecking,           \* UsageMonitor.isChecking
    useApiMethod,         \* UsageMonitor.useApiMethod
    cycles,               \* fetch cycles suspended at an await, in starting order
    apiFailedSinceRefresh,\* history: an API call failed after the latest forced refresh
    mlast,                \* the monitor operation performed by the latest step
    jsonlFiles,           \* the files findJsonlFiles returns, in scan order
    wallClock,            \* the reading of new Date(), in hours since the epoch
    results               \* history: the calculateLocalUsage calls made, in order

timers == <<restartTimers, cleanupTimers>>

agentVars == <<taskExecutionContext, processes, killedExits, restartTimers, cleanupTimers,
               restartsOk, last>>

monitorVars == <<intervalId, liveIntervals, currentUsage, isChecking, useApiMethod,
                 cycles, apiFailedSinceRefresh, mlast>>

calcVars == <<jsonlFiles, wallClock, results>>

vars == <<agentVars, activeProfile, monitorVars, calcVars>>

----------------------------------------------------------------------------
(* Bounds of the model *)

MaxRestartTimers == 2 \* pending restart timers of the orchestrator
MaxCleanupTimers == 1 \* pending cleanup timers of the orchestrator
MaxKilledExits == 1   \* undelivered exit events of killed workers, per task
MaxRefreshes == 1     \* forceRefresh calls whose fetch is outstanding
MaxFiles == 2         \* JSONL files in the project directories
MaxLines == 2         \* lines of one JSONL file
MaxRuns == 2          \* calculateLocalUsage calls of one behaviour
MaxElapsed == 1       \* hours the wall clock advances in one behaviour

(* Program constants *)

MAX_SWAP_COUNT == 2       \* agent-manager.ts: context.swapCount >= 2
RESTART_DELAY_MS == 500   \* agent-manager.ts: setTimeout(..., 500)
CLEANUP_DELAY_MS == 1000  \* agent-manager.ts: setTimeout(..., 1000)

\* Granularity of the model clock: the greatest delay dividing both timers.
TickMs == RESTART_DELAY_MS

Tasks == {"t1", "t2"}
Profiles == {"p1", "p2"}
NoProfile == "none"
NoContext == [none |-> TRUE]
ExitCodes == {0, 1, -1}   \* -1 stands for a null exit code (killed by a signal)
Payloads == {"a", "b"}    \* projectPath/specId/options or description/specDir of a start
SourceStates == {"ok", "missing", "norunner"}  \* source path and runner script on disk

----------------------------------------------------------------------------
(* shared/constants/models.ts *)

NoModel == "undefined"

AVAILABLE_MODELS ==
    [ opus |-> "anthropic", sonnet |-> "anthropic", haiku |-> "anthropic",
      glm47 |-> "zai", glm45air |-> "zai" ]

getModelProvider(model) ==
    IF model \in DOMAIN AVAILABLE_MODELS THEN AVAILABLE_MODELS[model] ELSE "anthropic"

isGLMModel(model) == getModelProvider(model) = "zai"

Phases == {"spec", "planning", "coding", "qa"}

\* SpecCreationMetadata / task_metadata.json values the model draws from.
\* hasMeta = FALSE is an undefined metadata argument (or a missing file).
NoMetadata ==
    [hasMeta |-> FALSE, isAutoProfile |-> FALSE, hasPhaseModels |-> FALSE,
     phaseModels |-> [p \in Phases |-> NoModel], model |-> NoModel]

SingleModel(m) ==
    [hasMeta |-> TRUE, isAutoProfile |-> FALSE, hasPhaseModels |-> FALSE,
     phaseModels |-> [p \in Phases |-> NoModel], model |-> m]

AutoProfile(specM, planM, codeM, qaM) ==
    [hasMeta |-> TRUE, isAutoProfile |-> TRUE, hasPhaseModels |-> TRUE,
     phaseModels |-> [p \in Phases |->
        CASE p = "spec" -> specM [] p = "planning" -> planM
          [] p = "coding" -> codeM [] OTHER -> qaM],
     model |-> NoModel]

MetadataSet ==
    { NoMetadata,
      SingleModel("glm47"),
      AutoProfile("opus", "opus", "sonnet", "glm45air") }

\* The models a task's configuration selects: the phase models of an auto
\* profile, otherwise the single configured model.
SelectedModels(metadata) ==
    IF metadata.hasMeta /\ metadata.isAutoProfile /\ metadata.hasPhaseModels
    THEN {metadata.phaseModels[p] : p \in Phases}
    ELSE IF metadata.hasMeta /\ metadata.model # NoModel
         THEN {metadata.model}
         ELSE {}

----------------------------------------------------------------------------
(* AgentManager helpers *)

\* validateGLMAuth: TRUE when it returns an error message, FALSE when it returns null.
\* hasZaiKey is !!loadGlobalSettings().globalZaiApiKey.
validateGLMAuth(metadata, hasZaiKey) ==
    LET modelsToCheck ==
            IF metadata.hasMeta /\ metadata.isAutoProfile /\ metadata.hasPhaseModels
            THEN {metadata.phaseModels[p] : p \in Phases}
            ELSE IF metadata.hasMeta /\ metadata.model # NoModel
                 THEN {metadata.model}
                 ELSE {}
        glmModels == {m \in modelsToCheck : isGLMModel(m)}
    IN  glmModels # {} /\ ~hasZaiKey

\* storeTaskContext that writes a fresh swap count whatever entry exists.
storeTaskContext_ResetsCount(taskId, args, isSpecCreation, metadata) ==
    [isSpecCreation |-> isSpecCreation, args |-> args,
     metadata |-> metadata, swapCount |-> 0]

\* storeTaskContext: the entry written for taskId; the swap count of an
\* existing entry is preserved, a new entry starts at 0.
storeTaskContext(taskId, args, isSpecCreation, metadata) ==
    LET existingContext == taskExecutionContext[taskId]
        swapCount == IF existingContext # NoContext THEN existingContext.swapCount ELSE 0
    IN  [isSpecCreation |-> isSpecCreation, args |-> args,
         metadata |-> metadata, swapCount |-> swapCount]

\* The record of a step: the operation, the task, and what the operation
\* returned (ret), emitted (err: the 'error' event) and requested of the
\* process manager (spawned, killed); for a restartTask that went through,
\* the newProfileId it was given (profile).
Op(op, task) ==
    [op |-> op, task |-> task, ret |-> "void", err |-> "none",
     spawned |-> FALSE, killed |-> FALSE, profile |-> "-"]

StartOps == {"startSpecCreation", "startTaskExecution", "startQAProcess"}

\* What the environment answers to one start operation: everything in order,
\* one pre-flight condition failing, or all of them failing.
Env(auth, zai, source) == [auth |-> auth, zai |-> zai, source |-> source]

StartEnv ==
    { Env(TRUE, TRUE, "ok"), Env(FALSE, TRUE, "ok"), Env(TRUE, FALSE, "ok"),
      Env(TRUE, TRUE, "missing"), Env(TRUE, TRUE, "norunner"),
      Env(FALSE, FALSE, "missing") }

----------------------------------------------------------------------------
(* AgentProcessManager (agent-process.ts): the process table *)

\* killProcess: the registered worker, if any, is signalled and unregistered;
\* its 'exit' event is delivered later (or never, if the manager suppresses it).
killProcess(taskId) ==
    /\ processes' = [processes EXCEPT ![taskId] = FALSE]
    /\ killedExits' =
         IF processes[taskId] /\ killedExits[taskId] < MaxKilledExits
         THEN [killedExits EXCEPT ![taskId] = @ + 1]
         ELSE killedExits

\* spawnProcess: a worker is registered for the task, in place of the one
\* registered before, which is killed.
spawnProcess(taskId) ==
    /\ processes' = [processes EXCEPT ![taskId] = TRUE]
    /\ killedExits' =
         IF processes[taskId] /\ killedExits[taskId] < MaxKilledExits
         THEN [killedExits EXCEPT ![taskId] = @ + 1]
         ELSE killedExits

----------------------------------------------------------------------------
(* Timers of the orchestrator *)

\* A restart timer that is due at once.
RestartTimer_NoDelay(taskId, context) ==
    [task |-> taskId, rem |-> 0, context |-> context]

RestartTimer(taskId, context) ==
    [task |-> taskId, rem |-> RESTART_DELAY_MS, context |-> context]

CleanupTimer(taskId, code) ==
    [task |-> taskId, rem |-> CLEANUP_DELAY_MS, code |-> code]

\* A timer is due when its delay has elapsed.  Timers of one delay fire in
\* arming order, so the one due is the head of its queue.
Due(queue) == queue # <<>> /\ Head(queue).rem = 0

Elapse(queue) == [i \in 1..Len(queue) |-> [queue[i] EXCEPT !.rem = @ - TickMs]]

----------------------------------------------------------------------------
(* Start operations.  pending is the restart timer queue the step leaves behind. *)

\* A failed start that has already recorded a fresh context for the task.
StartFailed_StoresContext(op, e) ==
    /\ last' = [op EXCEPT !.err = e]
    /\ taskExecutionContext' =
         [taskExecutionContext EXCEPT
            ![op.task] = [isSpecCreation |-> op.op = "startSpecCreation", args |-> "a",
                          metadata |-> NoMetadata, swapCount |-> 0]]
    /\ UNCHANGED <<processes, killedExits, restartsOk>>

\* A pre-flight check of a start failed: "this.emit('error', taskId, ...); return".
StartFailed(op, e) ==
    /\ last' = [op EXCEPT !.err = e]
    /\ UNCHANGED <<taskExecutionContext, processes, killedExits, restartsOk>>

\* startSpecCreation (agent-manager.ts 171-247)
SpecCreationBody(taskId, args, metadata, env, pending) ==
    LET op == Op("startSpecCreation", taskId)
        fail(e) == StartFailed(op, e)
    IN  /\ restartTimers' = pending
        /\ UNCHANGED <<cleanupTimers, activeProfile>>
        /\ IF ~env.auth THEN fail("auth")
           ELSE IF validateGLMAuth(metadata, env.zai) THEN fail("glm")
           ELSE IF env.source = "missing" THEN fail("source")
           ELSE IF env.source = "norunner" THEN fail("runner")
           ELSE /\ taskExecutionContext' =
                     [taskExecutionContext EXCEPT
                        ![taskId] = storeTaskContext(taskId, args, TRUE, metadata)]
                /\ restartsOk' =
                     IF taskExecutionContext[taskId] = NoContext
                     THEN [restartsOk EXCEPT ![taskId] = 0] ELSE restartsOk
                /\ spawnProcess(taskId)
                /\ last' = [op EXCEPT !.spawned = TRUE]

\* startTaskExecution (agent-manager.ts 252-313).  fileMetadata is the content
\* of the spec's task_metadata.json, read only to pick the worker's environment.
TaskExecutionBody(taskId, args, fileMetadata, env, pending) ==
    LET op == Op("startTaskExecution", taskId)
        fail(e) == StartFailed(op, e)
    IN  /\ restartTimers' = pending
        /\ UNCHANGED <<cleanupTimers, activeProfile>>
        /\ IF ~env.auth THEN fail("auth")
           ELSE IF env.source = "missing" THEN fail("source")
           ELSE IF env.source = "norunner" THEN fail("runner")
           ELSE /\ taskExecutionContext' =
                     [taskExecutionContext EXCEPT
                        ![taskId] = storeTaskContext(taskId, args, FALSE, NoMetadata)]
                /\ restartsOk' =
                     IF taskExecutionContext[taskId] = NoContext
                     THEN [restartsOk EXCEPT ![taskId] = 0] ELSE restartsOk
                /\ spawnProcess(taskId)
                /\ last' = [op EXCEPT !.spawned = TRUE]

StartSpecCreation(taskId, args, metadata, env) ==
    SpecCreationBody(taskId, args, metadata, env, restartTimers)

StartTaskExecution(taskId, args, fileMetadata, env) ==
    TaskExecutionBody(taskId, args, fileMetadata, env, restartTimers)

\* startQAProcess (agent-manager.ts 318-347)
StartQAProcess(taskId, fileMetadata, env) ==
    LET op == Op("startQAProcess", taskId)
    IN  /\ UNCHANGED <<taskExecutionContext, timers, restartsOk, activeProfile>>
        /\ IF env.source = "missing"
           THEN /\ last' = [op EXCEPT !.err = "source"]
                /\ UNCHANGED <<processes, killedExits>>
           ELSE IF env.source = "norunner"
           THEN /\ last' = [op EXCEPT !.err = "runner"]
                /\ UNCHANGED <<processes, killedExits>>
           ELSE /\ spawnProcess(taskId)
                /\ last' = [op EXCEPT !.spawned = TRUE]

----------------------------------------------------------------------------
(* restartTask (agent-manager.ts 465-531) *)

\* The cap test with the comparison off by one.
swapCapReached_OffByOne(context) == context.swapCount > MAX_SWAP_COUNT

\* "Prevent infinite swap loops": context.swapCount >= 2
swapCapReached(context) == context.swapCount >= MAX_SWAP_COUNT

\* A refusal that has already applied the new profile.
RestartRefused_SwitchesProfile(taskId, newProfileId) ==
    /\ last' = [Op("restartTask", taskId) EXCEPT !.ret = "false"]
    /\ activeProfile' = IF newProfileId # NoProfile THEN newProfileId ELSE activeProfile
    /\ UNCHANGED <<taskExecutionContext, processes, killedExits, timers, restartsOk>>

\* The two early returns of restartTask: false, nothing touched.
RestartRefused(taskId, newProfileId) ==
    /\ last' = [Op("restartTask", taskId) EXCEPT !.ret = "false"]
    /\ UNCHANGED <<taskExecutionContext, processes, killedExits, timers,
                   restartsOk, activeProfile>>

\* A restart that leaves the active profile alone.
restartProfile_Keeps(newProfileId) == activeProfile

\* restartTask 492-500: the active profile after "if (newProfileId) ...".
restartProfile(newProfileId) ==
    IF newProfileId # NoProfile /\ activeProfile # newProfileId
    THEN newProfileId ELSE activeProfile

RestartTask(taskId, newProfileId) ==
    LET context == taskExecutionContext[taskId]
    IN  IF context = NoContext THEN RestartRefused(taskId, newProfileId)
        ELSE IF swapCapReached(context) THEN RestartRefused(taskId, newProfileId)
        ELSE /\ Len(restartTimers) < MaxRestartTimers
             /\ UNCHANGED cleanupTimers
             /\ taskExecutionContext' =
                  [taskExecutionContext EXCEPT ![taskId].swapCount = @ + 1]
             /\ restartsOk' = [restartsOk EXCEPT ![taskId] = @ + 1]
             /\ activeProfile' = restartProfile(newProfileId)
             /\ killProcess(taskId)
             /\ restartTimers' = Append(restartTimers,
                  RestartTimer(taskId, [isSpecCreation |-> context.isSpecCreation,
                                        args |-> context.args,
                                        metadata |-> context.metadata]))
             /\ last' = [Op("restartTask", taskId) EXCEPT !.ret = "true", !.killed = TRUE,
                                                        !.profile = newProfileId]

\* The callback of the 500 ms timer armed by restartTask: re-invokes the start
\* operation that recorded the context, the environment answering from E and
\* the spec's task_metadata.json holding one of M.
RestartTimerFireIn(E, M) ==
    /\ Due(restartTimers)
    /\ LET tm == Head(restartTimers)
           pending == Tail(restartTimers)
       IN  \E env \in E :
             IF tm.context.isSpecCreation
             THEN SpecCreationBody(tm.task, tm.context.args, tm.context.metadata, env, pending)
             ELSE \E fileMetadata \in M :
                    TaskExecutionBody(tm.task, tm.context.args, fileMetadata, env, pending)

RestartTimerFire == RestartTimerFireIn(StartEnv, MetadataSet)

----------------------------------------------------------------------------
(* 'exit' handler (agent-manager.ts 54-78) *)

\* An 'exit' event for the task: the handler arms the cleanup timer.
OnExit(taskId, code) ==
    /\ Len(cleanupTimers) < MaxCleanupTimers
    /\ cleanupTimers' = Append(cleanupTimers, CleanupTimer(taskId, code))
    /\ last' = Op("exit", taskId)
    /\ UNCHANGED <<taskExecutionContext, restartTimers, restartsOk, activeProfile>>

\* A registered worker ends by itself.
WorkerExit(taskId, code) ==
    /\ processes[taskId]
    /\ processes' = [processes EXCEPT ![taskId] = FALSE]
    /\ UNCHANGED killedExits
    /\ OnExit(taskId, code)

\* The exit event of a killed worker is delivered.
KilledWorkerExit(taskId, code) ==
    /\ killedExits[taskId] > 0
    /\ killedExits' = [killedExits EXCEPT ![taskId] = @ - 1]
    /\ UNCHANGED processes
    /\ OnExit(taskId, code)

\* A cleanup that deletes only after a successful exit.
shouldDelete_OnlyOnSuccess(code, context) == code = 0

\* The cleanup callback's decision for an existing entry: delete after a
\* successful exit, or when the swap count has reached the cap.
shouldDelete(code, context) == code = 0 \/ context.swapCount >= MAX_SWAP_COUNT

\* A cleanup that empties the whole map.
CleanupTimerFire_ClearsAll ==
    /\ Due(cleanupTimers)
    /\ cleanupTimers' = Tail(cleanupTimers)
    /\ last' = Op("cleanup", Head(cleanupTimers).task)
    /\ taskExecutionContext' = [t \in Tasks |-> NoContext]
    /\ restartsOk' = [t \in Tasks |-> 0]
    /\ UNCHANGED <<processes, killedExits, restartTimers, activeProfile>>

\* The callback of the 1000 ms cleanup timer.
CleanupTimerFire ==
    /\ Due(cleanupTimers)
    /\ LET taskId == Head(cleanupTimers).task
           code == Head(cleanupTimers).code
           context == taskExecutionContext[taskId]
       IN  /\ cleanupTimers' = Tail(cleanupTimers)
           /\ last' = Op("cleanup", taskId)
           /\ IF context = NoContext
              THEN UNCHANGED <<taskExecutionContext, restartsOk>>
              ELSE IF shouldDelete(code, context)
              THEN /\ taskExecutionContext' =
                        [taskExecutionContext EXCEPT ![taskId] = NoContext]
                   /\ restartsOk' = [restartsOk EXCEPT ![taskId] = 0]
              ELSE UNCHANGED <<taskExecutionContext, restartsOk>>
    /\ UNCHANGED <<processes, killedExits, restartTimers, activeProfile>>

----------------------------------------------------------------------------
(* Environment of the orchestrator *)

\* Time passes by one clock tick; a due timer fires before time moves on.
Advance ==
    /\ restartTimers # <<>> \/ cleanupTimers # <<>>
    /\ ~Due(restartTimers) /\ ~Due(cleanupTimers)
    /\ restartTimers' = Elapse(restartTimers)
    /\ cleanupTimers' = Elapse(cleanupTimers)
    /\ last' = Op("advance", "-")
    /\ UNCHANGED <<taskExecutionContext, processes, killedExits, restartsOk, activeProfile>>

----------------------------------------------------------------------------
(* UsageMonitor (usage-monitor.ts) *)

NoUsage == [none |-> TRUE]

SESSION_ESTIMATE_CENTS == 85   \* localUsage.sessionUsage.costUSD / 0.85
WEEKLY_ESTIMATE_USD == 28      \* localUsage.weeklyUsage.costUSD / 28.0
CALIBRATION_MIN_PERCENT == 5   \* sessionPercent > 5 || weeklyPercent > 5
CALIBRATION_MIN_DIFF == 10     \* sessionDiff > 10 || weeklyDiff > 10

\* Math.round(n / d) for d > 0: the nearest integer, halves upwards.
RoundDiv(n, d) == (2 * n + d) \div (2 * d)

\* What the usage API answers: a failure (non-2xx, network error, malformed
\* body), or the two utilizations, here in thousandths (0.72 is 720).
ApiAnswer(ok, five, seven) == [ok |-> ok, five |-> five, seven |-> seven]

ApiAnswers ==
    { ApiAnswer(FALSE, 0, 0), ApiAnswer(TRUE, 0, 0), ApiAnswer(TRUE, 55, 0),
      ApiAnswer(TRUE, 950, 300), ApiAnswer(TRUE, 300, 1200) }

\* What calculateLocalUsage answers to the calibration step: a thrown error,
\* null, or the costs of the two windows, here in cents.
LocalAnswer(status, session, weekly) ==
    [status |-> status, session |-> session, weekly |-> weekly]

CalibrationAnswers ==
    { LocalAnswer("throw", 0, 0), LocalAnswer("null", 0, 0), LocalAnswer("ok", 0, 0),
      LocalAnswer("ok", 5, 0), LocalAnswer("ok", 50, 500) }

\* What calculateLocalUsageWithLimits answers to the fallback: a thrown error,
\* null, or the percentages of the two windows.
FallbackAnswers ==
    { LocalAnswer("throw", 0, 0), LocalAnswer("null", 0, 0), LocalAnswer("ok", 0, 0),
      LocalAnswer("ok", 90, 40) }

\* getAutoSwitchSettings() as read by a tick.
Settings(enabled, proactive, session, weekly) ==
    [enabled |-> enabled, proactiveSwapEnabled |-> proactive,
     sessionThreshold |-> session, weeklyThreshold |-> weekly]

SettingsSet ==
    { Settings(TRUE, TRUE, 90, 95), Settings(FALSE, TRUE, 90, 95),
      Settings(TRUE, FALSE, 90, 95) }

\* The record of a monitor step: the operation, the fetch cycle it belongs to
\* (kind), the calls of checkUsageAndSwap it made (ticks) and whether the guard
\* turned the call away (suppressed), whether getProfileToken gave it a token,
\* the data sources it called, whether an API call failed in it, whether it
\* invoked updateUsageCalibration, the events it emitted in order, and what
\* forceRefresh returned; whether fetchUsage resolved in the step (resolved)
\* and with what (fetched, NoUsage for null), the payload of 'usage-updated'
\* (published), the reason carried by 'proactive-swap-failed', and what the
\* step read: the settings, the answer of getBestAvailableProfile (best) and
\* the calibration's calculateLocalUsage answer (local).
NoSettings == [none |-> TRUE]

NotAsked == "-"

MOp(op) ==
    [op |-> op, kind |-> "-", ticks |-> 0, suppressed |-> FALSE, token |-> FALSE,
     apiCalled |-> FALSE, localCalled |-> FALSE, apiFailed |-> FALSE,
     calibrated |-> FALSE, events |-> <<>>, ret |-> NoUsage,
     resolved |-> FALSE, fetched |-> NoUsage, published |-> NoUsage,
     settings |-> NoSettings, best |-> NotAsked, reason |-> NotAsked,
     local |-> NotAsked]

Snapshot(sessionPercent, weeklyPercent, profileId, isEstimated) ==
    [sessionPercent |-> sessionPercent, weeklyPercent |-> weeklyPercent,
     profileId |-> profileId, isEstimated |-> isEstimated]

\* fetchUsage up to its first await: the source it calls first.
fetchUsageSource(apiMethod, hasToken) ==
    IF apiMethod /\ hasToken THEN "api" ELSE "local"

\* A fetch cycle suspended at an await: in the API call (pc "api"), in the
\* calibration's calculateLocalUsage (pc "calib", holding the API's
\* percentages) or in the fallback's local calculation (pc "local").
NewCycle(kind, profileId, apiMethod, hasToken) ==
    [kind |-> kind, pc |-> fetchUsageSource(apiMethod, hasToken),
     profileId |-> profileId, sessionPercent |-> 0, weeklyPercent |-> 0]

RemoveAt(seq, i) == SubSeq(seq, 1, i - 1) \o SubSeq(seq, i + 1, Len(seq))

InFlight(kind) == {i \in 1..Len(cycles) : cycles[i].kind = kind}

\* A tick that never finds a check in progress.
checkSuppressed_Never == FALSE

\* checkUsageAndSwap: "if (this.isChecking) return"
checkSuppressed == isChecking

\* A check that leaves the guard set when it is done.
releaseGuard_Holds == TRUE

\* "finally { this.isChecking = false }" (175-177)
releaseGuard == FALSE

\* A check that goes on to fetch without an active profile.
checkUsageAndSwap_NoProfileCheck(hasToken, profileFound) ==
    IF checkSuppressed
    THEN [suppressed |-> TRUE, isChecking |-> isChecking, started |-> <<>>,
          resolved |-> FALSE]
    ELSE [suppressed |-> FALSE, isChecking |-> TRUE,
          started |-> <<NewCycle("tick", activeProfile, useApiMethod, hasToken)>>,
          resolved |-> FALSE]

\* checkUsageAndSwap up to its first await: whether the guard turned the call
\* away, the value isChecking is left with, the fetch cycle started, and
\* whether fetchUsage resolved at once (with null: getProfile found nothing).
checkUsageAndSwap(hasToken, profileFound) ==
    IF checkSuppressed
    THEN [suppressed |-> TRUE, isChecking |-> isChecking, started |-> <<>>,
          resolved |-> FALSE]
    ELSE IF activeProfile = NoProfile
    THEN [suppressed |-> FALSE, isChecking |-> releaseGuard, started |-> <<>>,
          resolved |-> FALSE]
    ELSE IF ~profileFound
    THEN [suppressed |-> FALSE, isChecking |-> releaseGuard, started |-> <<>>,
          resolved |-> TRUE]
    ELSE [suppressed |-> FALSE, isChecking |-> TRUE,
          started |-> <<NewCycle("tick", activeProfile, useApiMethod, hasToken)>>,
          resolved |-> FALSE]

\* A step that calls checkUsageAndSwap once.
CallCheck(op, hasToken, profileFound) ==
    LET r == checkUsageAndSwap(hasToken, profileFound)
    IN  /\ isChecking' = r.isChecking
        /\ cycles' = cycles \o r.started
        /\ mlast' = [MOp(op) EXCEPT
                       !.kind = "tick", !.ticks = 1, !.suppressed = r.suppressed,
                       !.resolved = r.resolved,
                       !.token = (r.started # <<>> /\ hasToken),
                       !.apiCalled = (r.started # <<>> /\ r.started[1].pc = "api"),
                       !.localCalled = (r.started # <<>> /\ r.started[1].pc = "local")]
        /\ UNCHANGED <<currentUsage, useApiMethod, apiFailedSinceRefresh, activeProfile>>

\* A start that never finds the monitor running.
alreadyRunning_Never == FALSE

\* start: "if (this.intervalId) return"
alreadyRunning == intervalId

\* start (usage-monitor.ts 42-63)
Start(hasToken, profileFound) ==
    /\ UNCHANGED <<agentVars, calcVars>>
    /\ IF alreadyRunning
       THEN /\ mlast' = MOp("start")
            /\ UNCHANGED <<intervalId, liveIntervals, currentUsage, isChecking,
                           useApiMethod, cycles, apiFailedSinceRefresh, activeProfile>>
       ELSE /\ CallCheck("start", hasToken, profileFound)
            /\ intervalId' = TRUE
            /\ liveIntervals' = liveIntervals + 1

\* A stop that forgets the timer without clearing it.
Stop_KeepsTimer ==
    /\ UNCHANGED <<agentVars, calcVars>>
    /\ intervalId' = FALSE
    /\ mlast' = MOp("stop")
    /\ UNCHANGED <<liveIntervals, currentUsage, isChecking, useApiMethod, cycles,
                   apiFailedSinceRefresh, activeProfile>>

\* stop (usage-monitor.ts 104-110)
Stop ==
    /\ UNCHANGED <<agentVars, calcVars>>
    /\ IF intervalId
       THEN /\ liveIntervals' = liveIntervals - 1
            /\ intervalId' = FALSE
       ELSE UNCHANGED <<intervalId, liveIntervals>>
    /\ mlast' = MOp("stop")
    /\ UNCHANGED <<currentUsage, isChecking, useApiMethod, cycles,
                   apiFailedSinceRefresh, activeProfile>>

\* The callback of an installed repeating timer.
IntervalTick(hasToken, profileFound) ==
    /\ liveIntervals > 0
    /\ UNCHANGED <<agentVars, calcVars>>
    /\ CallCheck("tick", hasToken, profileFound)
    /\ UNCHANGED <<intervalId, liveIntervals>>

\* A timer callback in which a call of the profile manager throws before the
\* fetch (129-140): the error is caught (173-174) and the guard cleared.
IntervalTickThrows ==
    /\ liveIntervals > 0
    /\ ~checkSuppressed
    /\ UNCHANGED <<agentVars, calcVars>>
    /\ isChecking' = releaseGuard
    /\ mlast' = [MOp("tick") EXCEPT !.kind = "tick", !.ticks = 1, !.reason = "thrown"]
    /\ UNCHANGED <<intervalId, liveIntervals, currentUsage, useApiMethod, cycles,
                   apiFailedSinceRefresh, activeProfile>>

\* forceRefresh up to its first await (usage-monitor.ts 69-93); when
\* getProfile finds nothing fetchUsage resolves at once with null, which
\* forceRefresh returns.
ForceRefresh(hasToken, profileFound) ==
    /\ UNCHANGED <<agentVars, calcVars>>
    /\ UNCHANGED <<intervalId, liveIntervals, currentUsage, isChecking, activeProfile>>
    /\ IF activeProfile = NoProfile
       THEN /\ mlast' = [MOp("forceRefresh") EXCEPT !.kind = "refresh"]
            /\ UNCHANGED <<useApiMethod, cycles, apiFailedSinceRefresh>>
       ELSE LET apiMethod == IF hasToken THEN TRUE ELSE useApiMethod
                cycle == NewCycle("refresh", activeProfile, apiMethod, hasToken)
            IN  /\ useApiMethod' = apiMethod
                /\ apiFailedSinceRefresh' = FALSE
                /\ IF ~profileFound
                   THEN /\ UNCHANGED cycles
                        /\ mlast' = [MOp("forceRefresh") EXCEPT
                                       !.kind = "refresh", !.token = hasToken,
                                       !.resolved = TRUE]
                   ELSE /\ Cardinality(InFlight("refresh")) < MaxRefreshes
                        /\ cycles' = Append(cycles, cycle)
                        /\ mlast' = [MOp("forceRefresh") EXCEPT
                                       !.kind = "refresh", !.token = hasToken,
                                       !.apiCalled = (cycle.pc = "api"),
                                       !.localCalled = (cycle.pc = "local")]

\* A swap that reports completion without activating the alternative.
performProactiveSwap_KeepsProfile(currentProfileId, bestProfile) ==
    IF bestProfile = NoProfile
    THEN [active |-> activeProfile, events |-> <<"proactive-swap-failed">>,
          reason |-> "no_alternative"]
    ELSE [active |-> activeProfile,
          events |-> <<"proactive-swap-completed", "show-swap-notification">>,
          reason |-> NotAsked]

\* performProactiveSwap (usage-monitor.ts 403-446): the active profile it
\* leaves and the events it emits.  bestProfile is what
\* getBestAvailableProfile(currentProfileId) answers.
performProactiveSwap(currentProfileId, bestProfile) ==
    IF bestProfile = NoProfile
    THEN [active |-> activeProfile, events |-> <<"proactive-swap-failed">>,
          reason |-> "no_alternative"]
    ELSE [active |-> bestProfile,
          events |-> <<"proactive-swap-completed", "show-swap-notification">>,
          reason |-> NotAsked]

\* A threshold test that looks at proactiveSwapEnabled alone.
thresholdExceeded_IgnoresEnabled(usage, settings) ==
    /\ settings.proactiveSwapEnabled
    /\ \/ usage.sessionPercent >= settings.sessionThreshold
       \/ usage.weeklyPercent >= settings.weeklyThreshold

\* A threshold test on the snapshot stored before this tick.
thresholdExceeded_StoredBefore(usage, settings) ==
    /\ settings.enabled /\ settings.proactiveSwapEnabled
    /\ currentUsage # NoUsage
    /\ \/ currentUsage.sessionPercent >= settings.sessionThreshold
       \/ currentUsage.weeklyPercent >= settings.weeklyThreshold

\* The threshold test of a tick (usage-monitor.ts 153-158).
thresholdExceeded(usage, settings) ==
    /\ settings.enabled /\ settings.proactiveSwapEnabled
    /\ \/ usage.sessionPercent >= settings.sessionThreshold
       \/ usage.weeklyPercent >= settings.weeklyThreshold

\* A store that also takes a null result.
storeUsage_Always(usage) == usage

\* "if (usage) this.currentUsage = usage": the snapshot stored once fetchUsage
\* has resolved with usage.
storeUsage(usage) == IF usage # NoUsage THEN usage ELSE currentUsage

\* A forced refresh that goes on as a tick does.
returnsAfterStore_Never(kind) == FALSE

\* forceRefresh returns once it has stored and published (94-98); only
\* checkUsageAndSwap goes on to the settings (152-172).
returnsAfterStore(kind) == kind = "refresh"

\* The rest of a cycle once fetchUsage has resolved with usage (NoUsage for
\* null): forceRefresh 94-98, checkUsageAndSwap 142-177.  A tick that got a
\* snapshot reads the settings, and a swap reads getBestAvailableProfile, which
\* answers any profile but the one asked about, or none.
Complete(i, op, usage, calibrated, localUsage) ==
    LET c == cycles[i]
        done == [MOp(op) EXCEPT !.kind = c.kind, !.calibrated = calibrated,
                                !.local = localUsage, !.resolved = TRUE,
                                !.fetched = usage, !.published = usage]
        published == IF usage # NoUsage THEN <<"usage-updated">> ELSE <<>>
    IN  /\ cycles' = RemoveAt(cycles, i)
        /\ UNCHANGED <<intervalId, liveIntervals, useApiMethod, apiFailedSinceRefresh>>
        /\ currentUsage' = storeUsage(usage)
        /\ IF returnsAfterStore(c.kind)
           THEN /\ mlast' = [done EXCEPT !.events = published, !.ret = usage]
                /\ UNCHANGED <<isChecking, activeProfile>>
           ELSE /\ isChecking' = releaseGuard
                /\ IF usage = NoUsage
                   THEN /\ mlast' = done
                        /\ UNCHANGED activeProfile
                   ELSE \E settings \in SettingsSet :
                          IF thresholdExceeded(usage, settings)
                          THEN \E bestProfile \in (Profiles \ {c.profileId}) \cup {NoProfile} :
                                 LET swap == performProactiveSwap(c.profileId, bestProfile)
                                 IN  /\ activeProfile' = swap.active
                                     /\ mlast' = [done EXCEPT
                                                    !.events = published \o swap.events,
                                                    !.settings = settings,
                                                    !.best = bestProfile,
                                                    !.reason = swap.reason]
                          ELSE /\ mlast' = [done EXCEPT !.events = published,
                                                       !.settings = settings]
                               /\ UNCHANGED activeProfile

\* fetchUsage 203-218: the API call of cycle i failed; the flag is cleared and
\* the fallback is called.
ApiFailed(i, op) ==
    /\ useApiMethod' = FALSE
    /\ apiFailedSinceRefresh' = TRUE
    /\ cycles' = [cycles EXCEPT ![i].pc = "local",
                                ![i].sessionPercent = 0, ![i].weeklyPercent = 0]
    /\ mlast' = [MOp(op) EXCEPT !.kind = cycles[i].kind,
                                !.apiFailed = TRUE, !.localCalled = TRUE]
    /\ UNCHANGED <<intervalId, liveIntervals, currentUsage, isChecking, activeProfile>>

\* Math.round(utilization * 100), the utilization given in thousandths.
apiPercent(thousandths) == RoundDiv(thousandths, 10)

\* The usage API answers cycle i (fetchUsageViaAPI 232-270).
ApiResponse(i, answer) ==
    /\ i \in 1..Len(cycles) /\ cycles[i].pc = "api"
    /\ UNCHANGED <<agentVars, calcVars>>
    /\ LET sessionPercent == apiPercent(answer.five)
           weeklyPercent == apiPercent(answer.seven)
       IN  IF ~answer.ok THEN ApiFailed(i, "apiResponse")
           ELSE IF sessionPercent > CALIBRATION_MIN_PERCENT
                   \/ weeklyPercent > CALIBRATION_MIN_PERCENT
           THEN /\ cycles' = [cycles EXCEPT ![i].pc = "calib",
                                            ![i].sessionPercent = sessionPercent,
                                            ![i].weeklyPercent = weeklyPercent]
                /\ mlast' = [MOp("apiResponse") EXCEPT !.kind = cycles[i].kind]
                /\ UNCHANGED <<intervalId, liveIntervals, currentUsage, isChecking,
                               useApiMethod, apiFailedSinceRefresh, activeProfile>>
           ELSE Complete(i, "apiResponse",
                         Snapshot(sessionPercent, weeklyPercent, cycles[i].profileId, FALSE),
                         FALSE, NotAsked)

\* A calibration test without the tolerance.
shouldCalibrate_NoTolerance(sessionPercent, weeklyPercent, localUsage) ==
    /\ localUsage.status = "ok"
    /\ localUsage.session > 0 \/ localUsage.weekly > 0

\* The calibration test of fetchUsageViaAPI 272-283: costs in cents.
shouldCalibrate(sessionPercent, weeklyPercent, localUsage) ==
    /\ localUsage.status = "ok"
    /\ localUsage.session > 0 \/ localUsage.weekly > 0
    /\ LET estimatedSessionPercent ==
               RoundDiv(localUsage.session * 100, SESSION_ESTIMATE_CENTS)
           estimatedWeeklyPercent ==
               RoundDiv(localUsage.weekly, WEEKLY_ESTIMATE_USD)
           sessionDiff == IF sessionPercent >= estimatedSessionPercent
                          THEN sessionPercent - estimatedSessionPercent
                          ELSE estimatedSessionPercent - sessionPercent
           weeklyDiff == IF weeklyPercent >= estimatedWeeklyPercent
                         THEN weeklyPercent - estimatedWeeklyPercent
                         ELSE estimatedWeeklyPercent - weeklyPercent
       IN  sessionDiff > CALIBRATION_MIN_DIFF \/ weeklyDiff > CALIBRATION_MIN_DIFF

\* calculateLocalUsage answers the calibration step of cycle i
\* (fetchUsageViaAPI 271-319).  An error thrown there is caught as an API failure.
CalibrationDone(i, localUsage) ==
    /\ i \in 1..Len(cycles) /\ cycles[i].pc = "calib"
    /\ UNCHANGED <<agentVars, calcVars>>
    /\ LET c == cycles[i]
       IN  IF localUsage.status = "throw" THEN ApiFailed(i, "calibrationDone")
           ELSE Complete(i, "calibrationDone",
                         Snapshot(c.sessionPercent, c.weeklyPercent, c.profileId, FALSE),
                         shouldCalibrate(c.sessionPercent, c.weeklyPercent, localUsage),
                         localUsage)

\* The local calculation answers the fallback of cycle i
\* (fetchUsageViaLocalFiles 346-372).
LocalDone(i, localUsage) ==
    /\ i \in 1..Len(cycles) /\ cycles[i].pc = "local"
    /\ UNCHANGED <<agentVars, calcVars>>
    /\ Complete(i, "localDone",
                IF localUsage.status = "ok"
                THEN Snapshot(localUsage.session, localUsage.weekly, cycles[i].profileId, TRUE)
                ELSE NoUsage,
                FALSE, NotAsked)

\* The user activates another profile, or the active profile goes away.
SetActiveProfile(profileId) ==
    /\ profileId # activeProfile
    /\ activeProfile' = profileId
    /\ mlast' = MOp("setActiveProfile")
    /\ UNCHANGED <<agentVars, calcVars>>
    /\ UNCHANGED <<intervalId, liveIntervals, currentUsage, isChecking, useApiMethod,
                   cycles, apiFailedSinceRefresh>>

----------------------------------------------------------------------------
(* calculateLocalUsage (local-usage-calculator.ts)                          *)
(*                                                                          *)
(* Times are whole hours since the epoch.  A numeric timestamp of a log     *)
(* line is kept in units of 3600: a count of seconds is then a count of     *)
(* hours, a count of milliseconds is a thousand times that.  Costs are in   *)
(* units of 0.00000005 USD, the largest unit in which the four prices per   *)
(* token are whole numbers.                                                 *)

INPUT_PRICE == 60            \* SONNET_PRICING.inputPerMillion 3.0
OUTPUT_PRICE == 300          \* SONNET_PRICING.outputPerMillion 15.0
CACHE_READ_PRICE == 6        \* SONNET_PRICING.cacheReadPerMillion 0.30
CACHE_WRITE_PRICE == 75      \* SONNET_PRICING.cacheWritePerMillion 3.75
SESSION_COST_LIMIT == 17000000   \* ESTIMATED_COST_LIMITS.sessionCostUSD 0.85
WEEKLY_COST_LIMIT == 560000000   \* ESTIMATED_COST_LIMITS.weeklyCostUSD 28.0
SECONDS_LIMIT == 1139568     \* 4102444800 s (the year 2100), in units of 3600
MILLIS_LIMIT == 1139568000   \* 4102444800000 ms (the year 2100), in units of 3600
DEFAULT_SESSION_HOURS == 5   \* sessionHours: number = 5
DEFAULT_WEEKLY_DAYS == 7     \* weeklyDays: number = 7

\* The reading of the clock when a behaviour begins.
Now0 == 500000

\* One US dollar of costUSD.
OneUSD == (SESSION_COST_LIMIT \div 17) * 20

\* Date | null
Date(t) == [valid |-> TRUE, t |-> t]
NullDate == [valid |-> FALSE, t |-> 0]

\* TokenUsage | undefined
TokenUsage(input, output, cacheRead, cacheCreation) ==
    [input_tokens |-> input, output_tokens |-> output,
     cache_read_input_tokens |-> cacheRead,
     cache_creation_input_tokens |-> cacheCreation]
NoTokens == [none |-> TRUE]

\* costUSD?: number
Cost(c) == [present |-> TRUE, value |-> c]
NoCost == [present |-> FALSE, value |-> 0]

\* A timestamp field of a log line: an ISO string (one Date parses, at the
\* given hour, or one it does not), a number, or nothing.  unit is the unit
\* the writer of a number counted in; the code does not see it.
IsoString(t) == [type |-> "string", parses |-> TRUE, value |-> t]
BadString == [type |-> "string", parses |-> FALSE, value |-> 0]
Seconds(n) == [type |-> "number", parses |-> TRUE, value |-> n, unit |-> "s"]
Millis(n) == [type |-> "number", parses |-> TRUE, value |-> n, unit |-> "ms"]
Undefined == [type |-> "undefined", parses |-> FALSE, value |-> 0]

\* JavaScript truthiness of a timestamp field (the strings are not empty).
Truthy(field) ==
    \/ field.type = "string"
    \/ field.type = "number" /\ field.value # 0

\* A line of a JSONL file.  json: the line is a JSON object.  The fields
\* createdAt and created_at are read as time is and are left out.
ClaudeEvent(timestamp, time, isSidechain, messageUsage, usage, costUSD) ==
    [json |-> TRUE, timestamp |-> timestamp, time |-> time,
     isSidechain |-> isSidechain, messageUsage |-> messageUsage, usage |-> usage,
     costUSD |-> costUSD]
Garbage ==
    [json |-> FALSE, timestamp |-> Undefined, time |-> Undefined,
     isSidechain |-> FALSE, messageUsage |-> NoTokens, usage |-> NoTokens,
     costUSD |-> NoCost]

\* A file: what readFileSync returns, or that it throws.
File(lines) == [readable |-> TRUE, lines |-> lines]
Unreadable == [readable |-> FALSE, lines |-> <<>>]

\* calculateCost (local-usage-calculator.ts 113-127)
calculateCost(inputTokens, outputTokens, cacheReadTokens, cacheWriteTokens) ==
    inputTokens * INPUT_PRICE + outputTokens * OUTPUT_PRICE
      + cacheReadTokens * CACHE_READ_PRICE + cacheWriteTokens * CACHE_WRITE_PRICE

\* parseJsonlLine (190-200): null for a line that is no JSON object.
parseJsonlLine(line) == line.json

\* Usage is taken from sidechain events too.
extractUsage_KeepsSidechain(event) ==
    IF event.messageUsage # NoTokens THEN event.messageUsage ELSE event.usage

\* extractUsage (205-222)
extractUsage(event) ==
    IF event.isSidechain THEN NoTokens
    ELSE IF event.messageUsage # NoTokens THEN event.messageUsage
    ELSE IF event.usage # NoTokens THEN event.usage
    ELSE NoTokens

\* createEmptyAggregation (227-239)
createEmptyAggregation ==
    [inputTokens |-> 0, outputTokens |-> 0, cacheCreationTokens |-> 0,
     cacheReadTokens |-> 0, totalTokens |-> 0, costUSD |-> 0, eventCount |-> 0,
     oldestEvent |-> NullDate, newestEvent |-> NullDate]

\* addToAggregation (244-282)
addToAggregation(agg, usage, timestamp, costUSD) ==
    LET inputTokens == usage.input_tokens
        outputTokens == usage.output_tokens
        cacheReadTokens == usage.cache_read_input_tokens
        cacheCreationTokens == usage.cache_creation_input_tokens
    IN  [inputTokens |-> agg.inputTokens + inputTokens,
         outputTokens |-> agg.outputTokens + outputTokens,
         cacheCreationTokens |-> agg.cacheCreationTokens + cacheCreationTokens,
         cacheReadTokens |-> agg.cacheReadTokens + cacheReadTokens,
         totalTokens |-> agg.totalTokens + inputTokens + outputTokens
                           + cacheCreationTokens + cacheReadTokens,
         costUSD |-> agg.costUSD
                       + IF costUSD.present /\ costUSD.value > 0 THEN costUSD.value
                         ELSE calculateCost(inputTokens, outputTokens, cacheReadTokens,
                                            cacheCreationTokens),
         eventCount |-> agg.eventCount + 1,
         oldestEvent |-> IF ~agg.oldestEvent.valid \/ timestamp.t < agg.oldestEvent.t
                         THEN timestamp ELSE agg.oldestEvent,
         newestEvent |-> IF ~agg.newestEvent.valid \/ timestamp.t > agg.newestEvent.t
                         THEN timestamp ELSE agg.newestEvent]

\* formatDuration (287-300), of a whole number of hours.
formatDuration(hours) ==
    IF hours <= 0 THEN <<"0m">>
    ELSE IF hours >= 24 THEN <<hours \div 24, "d", hours % 24, "h">>
    ELSE <<hours, "h", 0, "m">>

\* The first timestamp field that is set (375).
tsValueOf(event) ==
    IF Truthy(event.timestamp) THEN event.timestamp
    ELSE IF Truthy(event.time) THEN event.time
    ELSE Undefined

\* Every number below the millisecond count of the year 2100 is a count of seconds.
dateOfNumber_MillisLimit(n) ==
    IF n < MILLIS_LIMIT THEN Date(n) ELSE Date(n \div 1000)

\* new Date of a numeric timestamp (383-390): a count of seconds is
\* multiplied by 1000, a count of milliseconds is taken as it is.
dateOfNumber(n) ==
    IF n < MILLIS_LIMIT
    THEN (IF n < SECONDS_LIMIT THEN Date(n) ELSE Date(n \div 1000))
    ELSE Date(n \div 1000)

\* The timestamp of an event (calculateLocalUsage 374-396).
parseTimestamp(event) ==
    LET tsValue == tsValueOf(event)
    IN  IF tsValue.type = "string"
        THEN IF tsValue.parses THEN Date(tsValue.value) ELSE NullDate
        ELSE IF tsValue.type = "number" THEN dateOfNumber(tsValue.value)
        ELSE NullDate

\* A session window as long as the weekly one.
sessionCutoff_Week(now) == now - DEFAULT_WEEKLY_DAYS * 24

\* The cutoffs of the two windows (328-329).
sessionCutoff(now) == now - DEFAULT_SESSION_HOURS
weeklyCutoff(now) == now - DEFAULT_WEEKLY_DAYS * 24

\* A total that is never zero.
totalTokensInEvent_NeverZero(usage) == 1

\* totalTokensInEvent (425-429)
totalTokensInEvent(usage) ==
    usage.input_tokens + usage.output_tokens + usage.cache_read_input_tokens
      + usage.cache_creation_input_tokens

\* The two windows under construction.
Windows(session, weekly) == [sessionUsage |-> session, weeklyUsage |-> weekly]

\* A weekly window that takes only what the session window does not.
processLine_DisjointWindows(aggs, line, now) ==
    IF ~parseJsonlLine(line) THEN aggs
    ELSE LET timestamp == parseTimestamp(line)
             usage == extractUsage(line)
         IN  IF ~timestamp.valid THEN aggs
             ELSE IF timestamp.t < weeklyCutoff(now) THEN aggs
             ELSE IF usage = NoTokens THEN aggs
             ELSE IF totalTokensInEvent(usage) = 0 THEN aggs
             ELSE IF timestamp.t >= sessionCutoff(now)
             THEN Windows(addToAggregation(aggs.sessionUsage, usage, timestamp,
                                           line.costUSD),
                          aggs.weeklyUsage)
             ELSE Windows(aggs.sessionUsage,
                          addToAggregation(aggs.weeklyUsage, usage, timestamp,
                                           line.costUSD))

\* The body of the loop over the lines of a file (354-442).
processLine(aggs, line, now) ==
    IF ~parseJsonlLine(line) THEN aggs
    ELSE LET timestamp == parseTimestamp(line)
             usage == extractUsage(line)
         IN  IF ~timestamp.valid THEN aggs
             ELSE IF timestamp.t < weeklyCutoff(now) THEN aggs
             ELSE IF usage = NoTokens THEN aggs
             ELSE IF totalTokensInEvent(usage) = 0 THEN aggs
             ELSE Windows(IF timestamp.t >= sessionCutoff(now)
                          THEN addToAggregation(aggs.sessionUsage, usage, timestamp,
                                                line.costUSD)
                          ELSE aggs.sessionUsage,
                          addToAggregation(aggs.weeklyUsage, usage, timestamp,
                                           line.costUSD))

\* A loop that gives up the file at the first line it cannot use.
RECURSIVE processLines_StopsAtBadLine(_, _, _, _)
processLines_StopsAtBadLine(aggs, lines, i, now) ==
    IF i > Len(lines) THEN aggs
    ELSE IF ~parseJsonlLine(lines[i]) \/ ~parseTimestamp(lines[i]).valid THEN aggs
    ELSE processLines_StopsAtBadLine(processLine(aggs, lines[i], now), lines, i + 1, now)

RECURSIVE processLines(_, _, _, _)
processLines(aggs, lines, i, now) ==
    IF i > Len(lines) THEN aggs
    ELSE processLines(processLine(aggs, lines[i], now), lines, i + 1, now)

\* A file that cannot be read discards what was aggregated before it.
processFile_ResetsOnError(aggs, file, now) ==
    IF ~file.readable THEN Windows(createEmptyAggregation, createEmptyAggregation)
    ELSE processLines(aggs, file.lines, 1, now)

\* The body of the loop over the files (348-446): readFileSync throwing
\* leaves the loop body through the empty catch.
processFile(aggs, file, now) ==
    IF ~file.readable THEN aggs
    ELSE processLines(aggs, file.lines, 1, now)

RECURSIVE processFiles(_, _, _, _)
processFiles(aggs, files, i, now) ==
    IF i > Len(files) THEN aggs
    ELSE processFiles(processFile(aggs, files[i], now), files, i + 1, now)

\* An aggregation that starts from the weekly totals of the call before.
startAggregation_Stale ==
    IF results # <<>> /\ ~results[Len(results)].ret.none
    THEN results[Len(results)].ret.weeklyUsage
    ELSE createEmptyAggregation

\* The aggregation a call starts from (337-338).
startAggregation == createEmptyAggregation

\* Math.min(100, Math.round(cost / limit * 100)) (459-466)
estimatedPercent(costUSD, limit) ==
    LET percent == RoundDiv(costUSD, limit \div 100)
    IN  IF percent < 100 THEN percent ELSE 100

\* LocalUsageSnapshot | null
NoSnapshot ==
    [none |-> TRUE, sessionUsage |-> createEmptyAggregation,
     weeklyUsage |-> createEmptyAggregation, sessionPercent |-> 0, weeklyPercent |-> 0,
     sessionResetTime |-> <<>>, weeklyResetTime |-> <<>>, fetchedAt |-> 0]

resetTime(agg, windowHours, now) ==
    IF agg.oldestEvent.valid
    THEN LET left == windowHours - (now - agg.oldestEvent.t)
         IN  formatDuration(IF left > 0 THEN left ELSE 0)
    ELSE <<"Now">>

\* calculateLocalUsage (307-509) over the files findJsonlFiles returned.
calculateLocalUsage(files, now) ==
    IF files = <<>> THEN NoSnapshot
    ELSE LET aggs == processFiles(Windows(startAggregation, startAggregation),
                                  files, 1, now)
         IN  [none |-> FALSE,
              sessionUsage |-> aggs.sessionUsage,
              weeklyUsage |-> aggs.weeklyUsage,
              sessionPercent |-> estimatedPercent(aggs.sessionUsage.costUSD,
                                                  SESSION_COST_LIMIT),
              weeklyPercent |-> estimatedPercent(aggs.weeklyUsage.costUSD,
                                                 WEEKLY_COST_LIMIT),
              sessionResetTime |-> resetTime(aggs.sessionUsage, DEFAULT_SESSION_HOURS, now),
              weeklyResetTime |-> resetTime(aggs.weeklyUsage, DEFAULT_WEEKLY_DAYS * 24, now),
              fetchedAt |-> now]

\* The log lines of the model.
StandardTokens == TokenUsage(1000, 500, 0, 0)
EvRecent == ClaudeEvent(IsoString(Now0 - 1), Undefined, FALSE, StandardTokens, NoTokens, NoCost)
EvOld == ClaudeEvent(IsoString(Now0 - 240), Undefined, FALSE, StandardTokens, NoTokens, NoCost)
EvWeeklyEdge ==
    ClaudeEvent(Seconds(Now0 - DEFAULT_WEEKLY_DAYS * 24), Undefined, FALSE, NoTokens,
                TokenUsage(10, 0, 0, 0), NoCost)
EvSessionEdge ==
    ClaudeEvent(Undefined, Millis((Now0 - DEFAULT_SESSION_HOURS) * 1000), FALSE, NoTokens,
                TokenUsage(0, 0, 200, 100), Cost(OneUSD))
EvSidechain == [EvRecent EXCEPT !.isSidechain = TRUE]
EvSidechainEdge == [EvSessionEdge EXCEPT !.isSidechain = TRUE]
EvZero ==
    ClaudeEvent(IsoString(Now0 - 2), Undefined, FALSE, TokenUsage(0, 0, 0, 0),
                TokenUsage(7, 0, 0, 0), Cost(OneUSD))
EvNoTime == ClaudeEvent(Undefined, Undefined, FALSE, StandardTokens, NoTokens, NoCost)
EvBadTime == ClaudeEvent(BadString, IsoString(Now0 - 1), FALSE, StandardTokens, NoTokens, NoCost)

\* Numeric timestamps: one instant counted in seconds and in milliseconds, a
\* count of milliseconds of the first weeks of 1970, and counts of seconds on
\* both sides of the year 2100.
EvSeconds == ClaudeEvent(Seconds(Now0 - 1), Undefined, FALSE, StandardTokens, NoTokens, NoCost)
EvMillis ==
    ClaudeEvent(Millis((Now0 - 1) * 1000), Undefined, FALSE, StandardTokens, NoTokens, NoCost)
EvEarlyMillis ==
    ClaudeEvent(Millis(Now0 - 1), Undefined, FALSE, StandardTokens, NoTokens, NoCost)
EvSeconds2099 ==
    ClaudeEvent(Seconds(SECONDS_LIMIT - 1), Undefined, FALSE, StandardTokens, NoTokens, NoCost)
EvSeconds2100 ==
    ClaudeEvent(Seconds(SECONDS_LIMIT), Undefined, FALSE, StandardTokens, NoTokens, NoCost)

\* Events that carry a cost of zero and a cost below zero.
EvZeroCost ==
    ClaudeEvent(IsoString(Now0 - 1), Undefined, FALSE, StandardTokens, NoTokens, Cost(0))
EvNegativeCost ==
    ClaudeEvent(IsoString(Now0 - 24), Undefined, FALSE, StandardTokens, NoTokens,
                Cost(0 - OneUSD))

CostLines == {EvRecent, EvOld, EvSessionEdge, EvZeroCost, EvNegativeCost}

StampLines == {EvRecent, EvOld, EvSeconds, EvMillis, EvEarlyMillis, EvSeconds2099,
               EvSeconds2100}

Lines == {EvRecent, EvOld, EvWeeklyEdge, EvSessionEdge, EvSidechain, EvSidechainEdge,
          EvZero, EvBadTime, EvNoTime, Garbage}

SeqsUpTo(S, n) == UNION {[1..k -> S] : k \in 0..n}

Files == {Unreadable} \cup {File(lines) : lines \in SeqsUpTo(Lines, MaxLines)}

\* A call of calculateLocalUsage.
CalculateLocalUsage ==
    /\ Len(results) < MaxRuns
    /\ results' = Append(results, [files |-> jsonlFiles, now |-> wallClock,
                                   ret |-> calculateLocalUsage(jsonlFiles, wallClock)])
    /\ UNCHANGED <<jsonlFiles, wallClock>>
    /\ UNCHANGED <<agentVars, activeProfile, monitorVars>>

\* Environment: a file is removed from the project directories.
RemoveFile(i) ==
    /\ i \in 1..Len(jsonlFiles)
    /\ jsonlFiles' = SubSeq(jsonlFiles, 1, i - 1) \o SubSeq(jsonlFiles, i + 1, Len(jsonlFiles))
    /\ UNCHANGED <<wallClock, results>>
    /\ UNCHANGED <<agentVars, activeProfile, monitorVars>>

\* Environment: an hour passes.
HourPasses ==
    /\ wallClock < Now0 + MaxElapsed
    /\ wallClock' = wallClock + 1
    /\ UNCHANGED <<jsonlFiles, results>>
    /\ UNCHANGED <<agentVars, activeProfile, monitorVars>>

----------------------------------------------------------------------------
(* Initial state and specifications *)

InitVars ==
    /\ taskExecutionContext = [t \in Tasks |-> NoContext]
    /\ processes = [t \in Tasks |-> FALSE]
    /\ killedExits = [t \in Tasks |-> 0]
    /\ restartTimers = <<>>
    /\ cleanupTimers = <<>>
    /\ restartsOk = [t \in Tasks |-> 0]
    /\ last = Op("init", "-")
    /\ intervalId = FALSE
    /\ liveIntervals = 0
    /\ currentUsage = NoUsage
    /\ isChecking = FALSE
    /\ useApiMethod = TRUE
    /\ cycles = <<>>
    /\ apiFailedSinceRefresh = FALSE
    /\ mlast = MOp("init")

\* The calculator has not been called.
InitCalculator ==
    /\ wallClock = Now0
    /\ results = <<>>

InitAgent == InitVars /\ activeProfile = "p1" /\ InitCalculator /\ jsonlFiles = <<>>

\* The orchestrator's steps for the task ids T, with start inputs drawn from
\* the payloads A, the metadata M and the environment answers E.
AgentStep(T, A, M, E) ==
    \/ \E t \in T, a \in A, m \in M, e \in E : StartSpecCreation(t, a, m, e)
    \/ \E t \in T, a \in A, m \in M, e \in E : StartTaskExecution(t, a, m, e)
    \/ \E t \in T, m \in M, e \in E : StartQAProcess(t, m, e)
    \/ \E t \in T, p \in Profiles \cup {NoProfile} : RestartTask(t, p)
    \/ RestartTimerFire
    \/ CleanupTimerFire
    \/ \E t \in T, c \in ExitCodes : WorkerExit(t, c)
    \/ \E t \in T, c \in ExitCodes : KilledWorkerExit(t, c)
    \/ Advance

\* One task, every input; the monitor is idle.
NextAgent ==
    /\ AgentStep({"t1"}, {"a"}, MetadataSet, StartEnv)
    /\ UNCHANGED <<monitorVars, calcVars>>

SpecAgent == InitAgent /\ [][NextAgent]_vars

\* Two tasks, each with every operation of the orchestrator and with a
\* payload and metadata of its own: starts that pass the pre-flight checks,
\* restarts that keep the active profile, exits with code 0 or 1; the monitor
\* is idle.
TasksEnv == Env(TRUE, TRUE, "ok")

TaskPayload == [t1 |-> "a", t2 |-> "b"]

TaskMetadata == [t1 |-> NoMetadata, t2 |-> SingleModel("glm47")]

NextTasks ==
    /\ \/ \E t \in Tasks : StartSpecCreation(t, TaskPayload[t], TaskMetadata[t], TasksEnv)
       \/ \E t \in Tasks : StartTaskExecution(t, TaskPayload[t], NoMetadata, TasksEnv)
       \/ \E t \in Tasks : StartQAProcess(t, NoMetadata, TasksEnv)
       \/ \E t \in Tasks : RestartTask(t, NoProfile)
       \/ RestartTimerFireIn({TasksEnv}, {NoMetadata})
       \/ CleanupTimerFire
       \/ \E t \in Tasks, c \in {0, 1} : WorkerExit(t, c)
       \/ \E t \in Tasks, c \in {0, 1} : KilledWorkerExit(t, c)
       \/ Advance
    /\ UNCHANGED <<monitorVars, calcVars>>

SpecTasks == InitAgent /\ [][NextTasks]_vars

\* One task whose workers are started by startSpecCreation and
\* startTaskExecution alone (no QA run), the credential valid or not at each
\* start; the monitor is idle.
WorkersEnv == {Env(TRUE, TRUE, "ok"), Env(FALSE, TRUE, "ok")}

NextWorkers ==
    /\ \/ \E e \in WorkersEnv : StartSpecCreation("t1", "a", NoMetadata, e)
       \/ \E e \in WorkersEnv : StartTaskExecution("t1", "a", NoMetadata, e)
       \/ \E p \in {NoProfile, "p2"} : RestartTask("t1", p)
       \/ RestartTimerFireIn(WorkersEnv, {NoMetadata})
       \/ CleanupTimerFire
       \/ \E c \in ExitCodes : WorkerExit("t1", c)
       \/ \E c \in ExitCodes : KilledWorkerExit("t1", c)
       \/ Advance
    /\ UNCHANGED <<monitorVars, calcVars>>

SpecWorkers == InitAgent /\ [][NextWorkers]_vars

\* The event loop runs the callback of a timer that is due, and time passes.
SpecWorkersFair ==
    /\ SpecWorkers
    /\ WF_vars(RestartTimerFireIn(WorkersEnv, {NoMetadata})
                 /\ UNCHANGED <<monitorVars, calcVars>>)
    /\ WF_vars(CleanupTimerFire /\ UNCHANGED <<monitorVars, calcVars>>)
    /\ WF_vars(Advance /\ UNCHANGED <<monitorVars, calcVars>>)

InitMonitor ==
    /\ InitVars /\ activeProfile \in Profiles \cup {NoProfile}
    /\ InitCalculator /\ jsonlFiles = <<>>

NextMonitor ==
    \/ \E hasToken, profileFound \in BOOLEAN : Start(hasToken, profileFound)
    \/ Stop
    \/ \E hasToken, profileFound \in BOOLEAN : IntervalTick(hasToken, profileFound)
    \/ IntervalTickThrows
    \/ \E hasToken, profileFound \in BOOLEAN : ForceRefresh(hasToken, profileFound)
    \/ \E i \in 1..Len(cycles), answer \in ApiAnswers : ApiResponse(i, answer)
    \/ \E i \in 1..Len(cycles), answer \in CalibrationAnswers : CalibrationDone(i, answer)
    \/ \E i \in 1..Len(cycles), answer \in FallbackAnswers : LocalDone(i, answer)
    \/ \E p \in Profiles \cup {NoProfile} : SetActiveProfile(p)

\* The orchestrator is idle.
SpecMonitor == InitMonitor /\ [][NextMonitor]_vars

\* The I/O a tick's fetch is waiting for returns.
TickIO ==
    \E i \in InFlight("tick") :
        \/ \E answer \in ApiAnswers : ApiResponse(i, answer)
        \/ \E answer \in CalibrationAnswers : CalibrationDone(i, answer)
        \/ \E answer \in FallbackAnswers : LocalDone(i, answer)

SpecMonitorFair == SpecMonitor /\ WF_vars(TickIO)

InitAggregate ==
    /\ InitVars /\ activeProfile = "p1"
    /\ InitCalculator
    /\ jsonlFiles \in SeqsUpTo(Files, MaxFiles)

\* The orchestrator and the monitor are idle.
NextAggregate ==
    \/ CalculateLocalUsage
    \/ \E i \in 1..MaxFiles : RemoveFile(i)
    \/ HourPasses

SpecAggregate == InitAggregate /\ [][NextAggregate]_vars

\* Readable files of the lines L.
FilesOf(L) == {File(lines) : lines \in SeqsUpTo(L, MaxLines)}

\* The calculator over files of lines with numeric timestamps.
InitStamps ==
    /\ InitVars /\ activeProfile = "p1"
    /\ InitCalculator
    /\ jsonlFiles \in SeqsUpTo(FilesOf(StampLines), MaxFiles)

SpecStamps == InitStamps /\ [][NextAggregate]_vars

\* The calculator over files of lines with and without a cost.
InitCosts ==
    /\ InitVars /\ activeProfile = "p1"
    /\ InitCalculator
    /\ jsonlFiles \in SeqsUpTo(FilesOf(CostLines), MaxFiles)

SpecCosts == InitCosts /\ [][NextAggregate]_vars

----------------------------------------------------------------------------
(* Properties of the orchestrator *)

HasContext(t) == taskExecutionContext[t] # NoContext

\* A step of startSpecCreation or startTaskExecution for t that passed the
\* pre-flight checks, called directly or by the restart timer.
StoringStart(t) ==
    /\ last'.op \in {"startSpecCreation", "startTaskExecution"}
    /\ last'.task = t /\ last'.spawned

\* The re-start performed by the callback of the restart timer, pre-flight passed.
TimerRestart(t) ==
    /\ StoringStart(t)
    /\ restartTimers # <<>> /\ restartTimers' = Tail(restartTimers)

HasGLM(metadata) == \E m \in SelectedModels(metadata) : isGLMModel(m)

\* C1 - Swap cap: while one context entry of a task exists, at most two
\* restartTask calls return true; a call made when the entry's swap counter
\* is 2 returns false, schedules no re-start and spawns nothing.
C1_SwapCap ==
    /\ [](\A t \in Tasks : restartsOk[t] <= 2)
    /\ [][\A t \in Tasks :
            (last'.op = "restartTask" /\ last'.task = t
               /\ HasContext(t) /\ taskExecutionContext[t].swapCount = 2)
            => /\ last'.ret = "false"
               /\ ~last'.spawned
               /\ restartTimers' = restartTimers
               /\ processes' = processes]_vars

C1_Witness ==
    \E t \in Tasks :
      /\ last.op = "restartTask" /\ last.task = t /\ last.ret = "false"
      /\ HasContext(t) /\ taskExecutionContext[t].swapCount = 2
      /\ restartsOk[t] = 2

\* C2 - Restart refusal: restartTask returns false, without throwing, when no
\* context is recorded or the swap counter is already 2, and then changes
\* nothing: counter, context map, active profile, running worker, no kill,
\* no timer.
C2_RestartRefusal ==
    [][\A t \in Tasks :
         (last'.op = "restartTask" /\ last'.task = t
            /\ (~HasContext(t) \/ taskExecutionContext[t].swapCount = 2))
         => /\ last'.ret = "false"
            /\ ~last'.killed
            /\ UNCHANGED <<taskExecutionContext, activeProfile, processes,
                           killedExits, restartTimers, cleanupTimers>>]_vars

C2_Witness ==
    \E t \in Tasks :
      /\ last.op = "restartTask" /\ last.task = t /\ last.ret = "false"
      /\ ~HasContext(t)
      /\ processes[t]

\* C3 - Swap counter invariant: every entry's counter is 0, 1 or 2; no step
\* lowers the counter of an entry that exists before and after it; the
\* counter changes only by +1, in a restartTask that returns true.
C3_SwapCounter ==
    /\ [](\A t \in Tasks : HasContext(t) => taskExecutionContext[t].swapCount \in {0, 1, 2})
    /\ [][\A t \in Tasks :
            (HasContext(t) /\ taskExecutionContext'[t] # NoContext)
            => \/ taskExecutionContext'[t].swapCount = taskExecutionContext[t].swapCount
               \/ /\ taskExecutionContext'[t].swapCount =
                       taskExecutionContext[t].swapCount + 1
                  /\ last'.op = "restartTask" /\ last'.task = t
                  /\ last'.ret = "true"]_vars

C3_Witness ==
    \E t \in Tasks :
      /\ last.op \in {"startSpecCreation", "startTaskExecution"}
      /\ last.task = t /\ last.spawned
      /\ HasContext(t) /\ taskExecutionContext[t].swapCount = 2
      /\ restartTimers = <<>>

\* The answers of the environment under which a start of the given kind,
\* with the given metadata, passes every pre-flight condition but cond.
OnlyFails(e, metadata, cond) ==
    /\ (cond # "auth") => e.auth
    /\ (cond # "zai") => (e.zai \/ ~HasGLM(metadata))
    /\ e.source = "ok"

\* C4 - Authentication precondition: each of startSpecCreation,
\* startTaskExecution and startQAProcess, called while the active profile has
\* no valid authentication (nothing else being wrong), spawns no worker and
\* emits the authentication 'error' event for the task.
C4_AuthPrecondition ==
    [][\A t \in Tasks, a \in Payloads, m \in MetadataSet, e \in StartEnv :
         (/\ ~e.auth /\ OnlyFails(e, m, "auth")
          /\ \/ StartSpecCreation(t, a, m, e)
             \/ StartTaskExecution(t, a, m, e)
             \/ StartQAProcess(t, m, e))
         => /\ last'.task = t
            /\ last'.err = "auth"
            /\ ~last'.spawned
            /\ processes' = processes]_vars

\* C5 - Provider-key precondition: each start operation whose task selects a
\* GLM model while no Z.ai API key is configured (nothing else being wrong)
\* emits the error naming the GLM models and spawns no worker.
C5_ProviderKeyPrecondition ==
    [][\A t \in Tasks, a \in Payloads, m \in MetadataSet, e \in StartEnv :
         (/\ HasGLM(m) /\ ~e.zai /\ OnlyFails(e, m, "zai")
          /\ \/ StartSpecCreation(t, a, m, e)
             \/ StartTaskExecution(t, a, m, e)
             \/ StartQAProcess(t, m, e))
         => /\ last'.task = t
            /\ last'.err = "glm"
            /\ ~last'.spawned
            /\ processes' = processes]_vars

\* C6 - Completion cleanup: every 'exit' event arms a 1000 ms timer; when it
\* fires, the task's entry is deleted iff the exit code was 0 or the entry's
\* counter, read then, is at least 2; otherwise the entry stays as it was;
\* without an entry the callback does nothing.  Other entries are untouched.
C6_CompletionCleanup ==
    /\ [][last'.op = "exit"
            => /\ Len(cleanupTimers') = Len(cleanupTimers) + 1
               /\ cleanupTimers'[Len(cleanupTimers')].task = last'.task
               /\ cleanupTimers'[Len(cleanupTimers')].rem = 1000
               /\ taskExecutionContext' = taskExecutionContext]_vars
    /\ [][last'.op = "cleanup"
            => LET t == Head(cleanupTimers).task
                   code == Head(cleanupTimers).code
                   context == taskExecutionContext[t]
               IN  /\ Head(cleanupTimers).rem = 0
                   /\ last'.task = t
                   /\ \A u \in Tasks \ {t} :
                        taskExecutionContext'[u] = taskExecutionContext[u]
                   /\ IF context = NoContext
                      THEN taskExecutionContext'[t] = NoContext
                      ELSE IF code = 0 \/ context.swapCount >= 2
                           THEN taskExecutionContext'[t] = NoContext
                           ELSE taskExecutionContext'[t] = context]_vars

C6_Witness ==
    \E t \in Tasks :
      /\ last.op = "cleanup" /\ last.task = t
      /\ HasContext(t) /\ taskExecutionContext[t].swapCount = 1

\* C7 - Context preservation: a start that passes its checks records an entry
\* with counter 0 when the task has none, and otherwise overwrites the entry
\* keeping its counter; so after the re-start of the restart protocol the
\* counter still holds what restartTask incremented it to (at least 1).
C7_ContextPreservation ==
    /\ [][\A t \in Tasks :
            StoringStart(t)
            => /\ taskExecutionContext'[t] # NoContext
               /\ taskExecutionContext'[t].swapCount =
                    IF HasContext(t) THEN taskExecutionContext[t].swapCount ELSE 0]_vars
    /\ [][\A t \in Tasks :
            TimerRestart(t)
            => /\ taskExecutionContext'[t] # NoContext
               /\ taskExecutionContext'[t].swapCount >= 1]_vars

\* A step in which restartTask went through for the task.
Restarted(t) ==
    last'.op = "restartTask" /\ last'.task = t /\ last'.ret = "true"

\* A step in which the callback of a restart timer ran.
ReStart == restartTimers # <<>> /\ restartTimers' = Tail(restartTimers)

\* C22 - Restart ordering: a restartTask that goes through increments the swap
\* counter and kills the task's worker, starting nothing; the start operation
\* is re-invoked by a timer armed for 500 ms with the context as it was,
\* startSpecCreation with the stored description, spec dir and metadata for a
\* context of a spec creation, startTaskExecution with the stored spec id and
\* options otherwise, and not before the delay has elapsed.
C22_RestartOrdering ==
    /\ [][\A t \in Tasks :
            Restarted(t)
              => LET context == taskExecutionContext[t]
                 IN  /\ taskExecutionContext'[t].swapCount = context.swapCount + 1
                     /\ last'.killed /\ ~last'.spawned /\ ~processes'[t]
                     /\ restartTimers' =
                          Append(restartTimers,
                                 [task |-> t, rem |-> 500,
                                  context |-> [isSpecCreation |-> context.isSpecCreation,
                                               args |-> context.args,
                                               metadata |-> context.metadata]])]_vars
    /\ [][ReStart
            => LET tm == Head(restartTimers)
               IN  /\ tm.rem = 0
                   /\ last'.task = tm.task
                   /\ last'.op = IF tm.context.isSpecCreation
                                 THEN "startSpecCreation" ELSE "startTaskExecution"
                   /\ last'.spawned
                        => /\ taskExecutionContext'[tm.task].args = tm.context.args
                           /\ tm.context.isSpecCreation
                                => taskExecutionContext'[tm.task].metadata
                                     = tm.context.metadata]_vars
    /\ [][(last'.op \in StartOps /\ ~ReStart) => restartTimers' = restartTimers]_vars

\* The second task, restarted as a spec creation after the first, has been
\* started again with its own payload and metadata.
C22_Witness ==
    /\ last.op = "startSpecCreation" /\ last.task = "t2" /\ last.spawned
    /\ restartsOk["t2"] = 1 /\ restartsOk["t1"] = 1
    /\ taskExecutionContext["t2"] # NoContext
    /\ taskExecutionContext["t2"].args = "b"
    /\ taskExecutionContext["t2"].metadata = SingleModel("glm47")
    /\ taskExecutionContext["t2"].swapCount = 1
    /\ restartTimers = <<>>

\* C23 - Profile switch on restart: a restartTask that goes through makes
\* newProfileId the active profile iff one was given and it is not the active
\* one; otherwise the active profile stays.
C23_ProfileSwitch ==
    [][\A t \in Tasks :
         Restarted(t)
           => LET given == last'.profile # NoProfile
              IN  /\ (given /\ last'.profile # activeProfile) => activeProfile' = last'.profile
                  /\ (~given \/ last'.profile = activeProfile) => activeProfile' = activeProfile]_vars

\* A restart has switched from p1 to p2.
C23_Witness ==
    /\ last.op = "restartTask" /\ last.ret = "true" /\ last.profile = "p2"
    /\ activeProfile = "p2"
    /\ restartsOk["t1"] = 1

\* C24 - Failed start has no effect on state: a startSpecCreation or
\* startTaskExecution that fails a pre-flight check emits its 'error' event,
\* spawns nothing, arms no timer, and leaves the context map, the process
\* table and the pending cleanups as they were.
C24_FailedStart ==
    [][(last'.op \in {"startSpecCreation", "startTaskExecution"} /\ last'.err # "none")
         => /\ ~last'.spawned /\ ~last'.killed
            /\ last'.err \in {"auth", "glm", "source", "runner"}
            /\ UNCHANGED <<taskExecutionContext, processes, killedExits, cleanupTimers,
                           activeProfile>>
            /\ restartTimers' = IF ReStart THEN Tail(restartTimers) ELSE restartTimers]_vars

\* A spec creation turned away for the Z.ai key, the task's context (restarted
\* once) and its worker being there.
C24_Witness ==
    /\ last.op = "startSpecCreation" /\ last.err = "glm"
    /\ taskExecutionContext["t1"] # NoContext
    /\ taskExecutionContext["t1"].swapCount = 1
    /\ processes["t1"]

\* C25 - No cross-task interference: a step of the orchestrator for one task
\* (a start, restartTask, the delayed re-start, the exit cleanup) leaves the
\* context entry of every other task, swap counter included, as it was.
C25_NoCrossTask ==
    [][\A b \in Tasks :
         last'.task # b => taskExecutionContext'[b] = taskExecutionContext[b]]_vars

\* The cleanup of the first task has deleted its entry while the second,
\* restarted twice, awaits its re-start.
C25_Witness ==
    /\ last.op = "cleanup" /\ last.task = "t1"
    /\ taskExecutionContext["t1"] = NoContext
    /\ taskExecutionContext["t2"] # NoContext
    /\ taskExecutionContext["t2"].swapCount = 2
    /\ restartTimers # <<>> /\ Head(restartTimers).task = "t2"

----------------------------------------------------------------------------
(* Properties of the monitor *)

\* A step in which a fetch cycle of the given kind starts.
CycleStarts(kind) ==
    /\ Len(cycles') = Len(cycles) + 1
    /\ cycles'[Len(cycles')].kind = kind

\* C8 - Tick overlap guard: at most one execution of checkUsageAndSwap is in
\* progress at any time; a tick triggered by the timer or by start() while
\* another tick's asynchronous work is outstanding returns at once, fetching
\* nothing, publishing nothing and attempting no swap.
C8_TickOverlapGuard ==
    /\ [](Cardinality(InFlight("tick")) <= 1)
    /\ [][(mlast'.op \in {"start", "tick"} /\ mlast'.ticks = 1 /\ InFlight("tick") # {})
           => /\ mlast'.suppressed
              /\ ~mlast'.apiCalled /\ ~mlast'.localCalled
              /\ mlast'.events = <<>>
              /\ UNCHANGED <<cycles, currentUsage, activeProfile, useApiMethod,
                             isChecking>>]_vars

C8_Witness ==
    /\ mlast.op = "tick" /\ mlast.ticks = 1 /\ mlast.suppressed
    /\ InFlight("tick") # {}

\* C9 - Start is idempotent: start() on a stopped monitor triggers one
\* immediate tick and installs exactly one repeating timer; start() on a
\* running monitor does nothing; so at most one timer exists whatever the
\* sequence of start and stop calls.
C9_StartIdempotent ==
    /\ [](liveIntervals <= 1 /\ (intervalId <=> liveIntervals = 1))
    /\ [][mlast'.op = "start"
           => IF ~intervalId
              THEN /\ mlast'.ticks = 1
                   /\ intervalId'
                   /\ liveIntervals' = liveIntervals + 1
              ELSE /\ mlast'.ticks = 0
                   /\ UNCHANGED <<intervalId, liveIntervals, cycles, isChecking,
                                  currentUsage, useApiMethod, activeProfile>>]_vars

C9_Witness ==
    /\ mlast.op = "start" /\ mlast.ticks = 0
    /\ intervalId /\ liveIntervals = 1

\* C10 - Authoritative-source demotion: a fetch cycle calls the usage API
\* first iff a token is available and no API call has failed since the monitor
\* was created or last force-refreshed; the cycle whose API call fails falls
\* back to the local source at once, and no later tick calls the API until a
\* forced refresh.
C10_AuthoritativeDemotion ==
    /\ [][(CycleStarts("tick") \/ CycleStarts("refresh"))
           => (mlast'.apiCalled <=> (mlast'.token /\ ~apiFailedSinceRefresh'))]_vars
    /\ [][mlast'.apiFailed
           => /\ mlast'.localCalled
              /\ Len(cycles') = Len(cycles)
              /\ \E i \in 1..Len(cycles) :
                   /\ cycles[i].pc \in {"api", "calib"} /\ cycles'[i].pc = "local"
                   /\ \A j \in 1..Len(cycles) \ {i} : cycles'[j] = cycles[j]]_vars
    /\ [][(CycleStarts("tick") /\ mlast'.apiCalled) => ~apiFailedSinceRefresh]_vars

\* A step in which fetchUsage resolved for a cycle of the given kind.
Resolved(kind) == mlast'.kind = kind /\ mlast'.resolved

\* The step made a swap attempt (it asked for the best available profile).
SwapAttempted == mlast'.best # NotAsked

Count(seq, x) == Cardinality({i \in 1..Len(seq) : seq[i] = x})

\* C11 - Forced refresh: forceRefresh() resets the API-failed flag, so its
\* cycle tries the usage API first (a token being there to try it with); it
\* performs exactly one fetch cycle of its own whether or not the timer runs;
\* on success it stores the snapshot, emits 'usage-updated' and returns it.
C11_ForcedRefresh ==
    /\ [][(mlast'.op = "forceRefresh" /\ activeProfile # NoProfile /\ ~mlast'.resolved)
           => /\ useApiMethod'
              /\ CycleStarts("refresh")
              /\ mlast'.ticks = 0
              /\ mlast'.token => mlast'.apiCalled]_vars
    /\ [][(Resolved("refresh") /\ mlast'.fetched # NoUsage)
           => /\ currentUsage' = mlast'.fetched
              /\ mlast'.events = <<"usage-updated">>
              /\ mlast'.published = mlast'.fetched
              /\ mlast'.ret = mlast'.fetched]_vars

\* C12 - Publication: a tick that obtained a snapshot stores it and emits
\* 'usage-updated' once, with that snapshot; a tick whose sources both failed
\* (or whose profile was not found) leaves the stored snapshot alone and
\* emits nothing.
C12_Publication ==
    [][Resolved("tick")
         => IF mlast'.fetched # NoUsage
            THEN /\ currentUsage' = mlast'.fetched
                 /\ Count(mlast'.events, "usage-updated") = 1
                 /\ mlast'.published = mlast'.fetched
            ELSE /\ currentUsage' = currentUsage
                 /\ mlast'.events = <<>>]_vars

C12_Witness ==
    /\ mlast.kind = "tick" /\ mlast.resolved /\ mlast.op = "localDone"
    /\ mlast.fetched = NoUsage /\ mlast.events = <<>>
    /\ currentUsage # NoUsage

\* The threshold part of the failover trigger, as the claim words it.
AtOrAboveThreshold(usage, settings) ==
    \/ usage.sessionPercent >= settings.sessionThreshold
    \/ usage.weeklyPercent >= settings.weeklyThreshold

\* C13 as stated - Failover trigger: in a tick that obtained a snapshot a swap
\* is attempted iff proactiveSwapEnabled is true and the session or the weekly
\* percentage is at or above its threshold.
C13_FailoverTrigger_Original ==
    [][(Resolved("tick") /\ mlast'.fetched # NoUsage)
         => (SwapAttempted <=> /\ mlast'.settings.proactiveSwapEnabled
                               /\ AtOrAboveThreshold(mlast'.fetched, mlast'.settings))]_vars

\* C13 as amended - Failover trigger: in a tick that obtained a snapshot a swap
\* is attempted iff auto-switching is enabled (settings.enabled) and
\* proactiveSwapEnabled is true and the session or the weekly percentage is at
\* or above its threshold; an authoritative session percentage of 95 with both
\* switches on and sessionThreshold 90 leads to a swap attempt.
C13_FailoverTrigger ==
    /\ [][(Resolved("tick") /\ mlast'.fetched # NoUsage)
           => (SwapAttempted <=> /\ mlast'.settings.enabled
                                 /\ mlast'.settings.proactiveSwapEnabled
                                 /\ AtOrAboveThreshold(mlast'.fetched, mlast'.settings))]_vars
    /\ [][(Resolved("tick") /\ ~(mlast'.fetched # NoUsage)) => ~SwapAttempted]_vars
    /\ [][(/\ Resolved("tick") /\ mlast'.fetched # NoUsage
            /\ ~mlast'.fetched.isEstimated /\ mlast'.fetched.sessionPercent = 95
            /\ mlast'.settings = Settings(TRUE, TRUE, 90, 95))
           => SwapAttempted]_vars

C13_Witness ==
    /\ mlast.kind = "tick" /\ mlast.resolved /\ mlast.fetched # NoUsage
    /\ ~mlast.fetched.isEstimated /\ mlast.fetched.sessionPercent = 95
    /\ mlast.settings = Settings(TRUE, TRUE, 90, 95)
    /\ mlast.best # NotAsked

\* C14 - Swap outcome: a swap attempt ends in one of two ways.  With an
\* alternative profile, the active profile becomes it and
\* 'proactive-swap-completed' is emitted once, followed by
\* 'show-swap-notification'.  Without one, 'proactive-swap-failed' with reason
\* no_alternative is emitted once, the active profile stays, and the tick makes
\* no further attempt.
C14_SwapOutcome ==
    [][SwapAttempted
         => /\ mlast'.kind = "tick"
            /\ IF mlast'.best # NoProfile
               THEN /\ activeProfile' = mlast'.best
                    /\ mlast'.events = <<"usage-updated", "proactive-swap-completed",
                                          "show-swap-notification">>
               ELSE /\ activeProfile' = activeProfile
                    /\ mlast'.events = <<"usage-updated", "proactive-swap-failed">>
                    /\ mlast'.reason = "no_alternative"]_vars

C14_Witness ==
    /\ mlast.best \in Profiles /\ activeProfile = mlast.best
    /\ mlast.fetched # NoUsage /\ mlast.fetched.profileId # activeProfile
    /\ Count(mlast.events, "proactive-swap-completed") = 1

\* C15 - Percentage clamp: every snapshot the monitor publishes, from the API
\* or from local logs, has sessionPercent and weeklyPercent within [0, 100].
C15_PercentageClamp ==
    mlast.published # NoUsage
      => /\ mlast.published.sessionPercent \in 0..100
         /\ mlast.published.weeklyPercent \in 0..100

Abs(n) == IF n >= 0 THEN n ELSE -n

\* C16 - Calibration gate: updateUsageCalibration is invoked only after a
\* successful API fetch with an authoritative percentage above 5 and an
\* authoritative percentage more than 10 points away from the local estimate
\* (cost over 0.85 USD per session, 28 USD per week); when both windows agree
\* within 10 points it is not invoked.
C16_CalibrationGate ==
    [][mlast'.op = "calibrationDone" /\ mlast'.resolved
         => LET api == mlast'.fetched
                sessionDiff == Abs(api.sessionPercent
                                     - RoundDiv(mlast'.local.session * 100, 85))
                weeklyDiff == Abs(api.weeklyPercent - RoundDiv(mlast'.local.weekly, 28))
            IN  /\ mlast'.calibrated
                     => /\ ~api.isEstimated
                        /\ mlast'.local.status = "ok"
                        /\ api.sessionPercent > 5 \/ api.weeklyPercent > 5
                        /\ sessionDiff > 10 \/ weeklyDiff > 10
                /\ (sessionDiff <= 10 /\ weeklyDiff <= 10) => ~mlast'.calibrated]_vars
    /\ [][mlast'.calibrated => (mlast'.op = "calibrationDone" /\ mlast'.resolved)]_vars

C16_Witness ==
    /\ mlast.op = "calibrationDone" /\ mlast.resolved /\ ~mlast.calibrated
    /\ mlast.local.status = "ok" /\ mlast.local.session > 0
    /\ mlast.fetched.sessionPercent > 5
    /\ Abs(mlast.fetched.sessionPercent - RoundDiv(mlast.local.session * 100, 85)) <= 10

\* C21 - Single-writer snapshot: the stored snapshot is written only by the
\* tick handler; start, stop, forced refresh and reads do not write it.
C21_SingleWriter ==
    [][currentUsage' # currentUsage => mlast'.kind = "tick"]_vars

\* C26 - Stop: stop() clears the repeating timer, so no timer-driven tick
\* begins while the monitor is stopped; it leaves a tick in flight alone, which
\* runs to completion; on a stopped monitor it changes nothing.
C26_Stop ==
    /\ [][mlast'.op = "tick" => intervalId]_vars
    /\ [][mlast'.op = "stop"
            => /\ ~intervalId' /\ liveIntervals' = 0
               /\ UNCHANGED <<cycles, isChecking, currentUsage, useApiMethod, activeProfile>>
               /\ mlast'.events = <<>> /\ mlast'.ticks = 0]_vars
    /\ [][(mlast'.op = "stop" /\ ~intervalId) => UNCHANGED <<intervalId, liveIntervals>>]_vars
    /\ [](~intervalId => liveIntervals = 0)

\* A tick in flight when the monitor was stopped has completed and published.
C26_Witness ==
    /\ ~intervalId /\ liveIntervals = 0
    /\ mlast.kind = "tick" /\ mlast.resolved /\ mlast.published # NoUsage
    /\ mlast.events # <<>>

\* C27 - No active profile: a tick that finds no active profile calls neither
\* data source, leaves the stored snapshot, the API flag and the active
\* profile as they are, and emits nothing.
C27_NoActiveProfile ==
    [][(/\ mlast'.kind = "tick" /\ mlast'.ticks = 1 /\ ~mlast'.suppressed
        /\ activeProfile = NoProfile)
         => /\ ~mlast'.apiCalled /\ ~mlast'.localCalled
            /\ UNCHANGED <<currentUsage, useApiMethod, activeProfile, cycles>>
            /\ mlast'.events = <<>>
            /\ ~isChecking']_vars

\* A timer tick without an active profile, a snapshot being stored.
C27_Witness ==
    /\ mlast.op = "tick" /\ mlast.ticks = 1 /\ ~mlast.suppressed
    /\ activeProfile = NoProfile
    /\ currentUsage # NoUsage
    /\ cycles = <<>>

\* The places of an event in a sequence of events.
Places(events, e) == {i \in 1..Len(events) : events[i] = e}

\* C28 - Ordering within a tick: the settings are read and the thresholds
\* tested only once the fetch has resolved with a snapshot, which is then
\* already stored and published; a tick's 'proactive-swap-completed' or
\* 'proactive-swap-failed' comes after its 'usage-updated'; the thresholds a
\* swap rests on are exceeded by that same snapshot.
C28_TickOrdering ==
    /\ [][mlast'.settings # NoSettings
            => /\ Resolved("tick") /\ mlast'.fetched # NoUsage
               /\ currentUsage' = mlast'.fetched
               /\ mlast'.published = mlast'.fetched
               /\ mlast'.events[1] = "usage-updated"]_vars
    /\ [][\A e \in {"proactive-swap-completed", "proactive-swap-failed"} :
            \A i \in Places(mlast'.events, e) :
               /\ mlast'.kind = "tick"
               /\ \E j \in Places(mlast'.events, "usage-updated") : j < i]_vars
    /\ [][SwapAttempted
            => /\ mlast'.settings # NoSettings
               /\ AtOrAboveThreshold(mlast'.fetched, mlast'.settings)]_vars

\* A tick that stored and published a snapshot and then swapped.
C28_Witness ==
    /\ mlast.kind = "tick" /\ mlast.best \in Profiles
    /\ mlast.events = <<"usage-updated", "proactive-swap-completed",
                        "show-swap-notification">>
    /\ mlast.fetched = currentUsage

----------------------------------------------------------------------------
(* Properties of the calculator *)

\* The calls made so far that returned a snapshot.
Snapshots == {k \in 1..Len(results) : ~results[k].ret.none}

\* The lines of the readable files, in scan order.
RECURSIVE LinesRead(_)
LinesRead(files) ==
    IF files = <<>> THEN <<>>
    ELSE (IF Head(files).readable THEN Head(files).lines ELSE <<>>) \o LinesRead(Tail(files))

\* The token record an event carries: message.usage before usage.
Carried(event) ==
    IF event.messageUsage # NoTokens THEN event.messageUsage ELSE event.usage

TokensOf(event) ==
    IF Carried(event) = NoTokens THEN 0
    ELSE Carried(event).input_tokens + Carried(event).output_tokens
           + Carried(event).cache_read_input_tokens
           + Carried(event).cache_creation_input_tokens

\* An event with a valid timestamp and non-zero tokens that is no sidechain event.
Eligible(event) ==
    /\ event.json /\ parseTimestamp(event).valid
    /\ ~event.isSidechain /\ TokensOf(event) # 0

\* What an event adds to the window that begins at the cutoff.
InWindow(event, cutoff) == Eligible(event) /\ parseTimestamp(event).t >= cutoff

RECURSIVE SumTokens(_, _)
SumTokens(lines, cutoff) ==
    IF lines = <<>> THEN 0
    ELSE (IF InWindow(Head(lines), cutoff) THEN TokensOf(Head(lines)) ELSE 0)
           + SumTokens(Tail(lines), cutoff)

CountEvents(lines, cutoff) ==
    Cardinality({i \in 1..Len(lines) : InWindow(lines[i], cutoff)})

\* C17 - Window membership: an event with a valid timestamp t and non-zero
\* tokens that is no sidechain event counts in neither window when t is before
\* the weekly cutoff (now - 7 days), in the weekly window alone when t is at or
\* after it and before the session cutoff (now - 5 hours), and in both windows
\* when t is at or after the session cutoff.  An event 1 hour old with 1000
\* input and 500 output tokens gives totalTokens 1500 in both windows; 10 days
\* old it gives 0 in both.
C17_WindowMembership ==
    \A k \in Snapshots :
        LET r == results[k]
            lines == LinesRead(r.files)
            session == r.now - 5
            weekly == r.now - 7 * 24
        IN  /\ r.ret.weeklyUsage.totalTokens = SumTokens(lines, weekly)
            /\ r.ret.weeklyUsage.eventCount = CountEvents(lines, weekly)
            /\ r.ret.sessionUsage.totalTokens = SumTokens(lines, session)
            /\ r.ret.sessionUsage.eventCount = CountEvents(lines, session)
            /\ (r.files = <<File(<<EvRecent>>)>> /\ r.now = Now0)
                 => /\ r.ret.sessionUsage.totalTokens = 1500
                    /\ r.ret.weeklyUsage.totalTokens = 1500
            /\ r.files = <<File(<<EvOld>>)>>
                 => /\ r.ret.sessionUsage.totalTokens = 0
                    /\ r.ret.weeklyUsage.totalTokens = 0

\* A call that read an event of each kind: too old, weekly only, both windows.
C17_Witness ==
    \E k \in Snapshots :
        LET r == results[k]
            lines == LinesRead(r.files)
        IN  /\ \E i \in 1..Len(lines) : lines[i] = EvOld
            /\ \E i \in 1..Len(lines) :
                   /\ Eligible(lines[i])
                   /\ parseTimestamp(lines[i]).t >= r.now - 7 * 24
                   /\ parseTimestamp(lines[i]).t < r.now - 5
            /\ \E i \in 1..Len(lines) :
                   Eligible(lines[i]) /\ parseTimestamp(lines[i]).t >= r.now - 5
            /\ r.ret.weeklyUsage.eventCount = 2
            /\ r.ret.sessionUsage.eventCount = 1

\* The files without their sidechain events.
WithoutSidechain(files) ==
    [i \in 1..Len(files) |->
        [files[i] EXCEPT !.lines = SelectSeq(files[i].lines, LAMBDA e : ~e.isSidechain)]]

\* C18 - Sidechain exclusion: an event flagged isSidechain adds nothing to
\* either window (tokens, cost, event count, oldest and newest event),
\* whatever its timestamp and tokens: the windows are those of the same files
\* with the sidechain events taken out, and files of sidechain events alone
\* give empty windows.
C18_SidechainExclusion ==
    \A k \in Snapshots :
        LET r == results[k]
            lines == LinesRead(r.files)
            plain == calculateLocalUsage(WithoutSidechain(r.files), r.now)
        IN  /\ r.ret.sessionUsage = plain.sessionUsage
            /\ r.ret.weeklyUsage = plain.weeklyUsage
            /\ (\A i \in 1..Len(lines) : lines[i].isSidechain)
                 => /\ r.ret.sessionUsage = createEmptyAggregation
                    /\ r.ret.weeklyUsage = createEmptyAggregation

\* A call that read both sidechain events next to one that counts.
C18_Witness ==
    \E k \in Snapshots :
        LET r == results[k]
            lines == LinesRead(r.files)
        IN  /\ \E i \in 1..Len(lines) : lines[i] = EvSidechain
            /\ \E i \in 1..Len(lines) : lines[i] = EvSidechainEdge
            /\ \E i \in 1..Len(lines) : lines[i] = EvRecent
            /\ r.now = Now0
            /\ r.ret.sessionUsage.eventCount = 1
            /\ r.ret.weeklyUsage.totalTokens = 1500

ReadableOnly(files) == SelectSeq(files, LAMBDA f : f.readable)

\* C20 - Partial-failure tolerance: a file that cannot be read is skipped and
\* the call still returns its snapshot; the windows are those of a call over
\* the readable files alone (files none of which can be read give empty
\* windows), wherever the unreadable file stands in the scan.
C20_PartialFailure ==
    /\ \A k \in 1..Len(results) : results[k].files # <<>> => ~results[k].ret.none
    /\ \A k \in Snapshots :
           ReadableOnly(results[k].files) = <<>>
             => /\ results[k].ret.sessionUsage = createEmptyAggregation
                /\ results[k].ret.weeklyUsage = createEmptyAggregation
    /\ \A j, k \in Snapshots :
           (/\ results[j].now = results[k].now
            /\ results[k].files = ReadableOnly(results[j].files))
             => /\ results[j].ret.sessionUsage = results[k].ret.sessionUsage
                /\ results[j].ret.weeklyUsage = results[k].ret.weeklyUsage

\* A call over a readable file followed by an unreadable one, then, the
\* unreadable file removed, a call over the readable file alone.
C20_Witness ==
    /\ Len(results) = 2
    /\ Len(results[1].files) = 2
    /\ results[1].files[1].readable /\ ~results[1].files[2].readable
    /\ results[2].files = <<results[1].files[1]>>
    /\ results[1].now = results[2].now
    /\ results[2].ret.weeklyUsage.eventCount > 0
    /\ results[1].ret.weeklyUsage = results[2].ret.weeklyUsage

\* The files with the lines satisfying Drop taken out.
Without(files, Drop(_)) ==
    [i \in 1..Len(files) |->
        [files[i] EXCEPT !.lines = SelectSeq(files[i].lines, LAMBDA e : ~Drop(e))]]

\* An event whose token counts are all zero or absent.
ZeroTokens(event) == event.json /\ TokensOf(event) = 0

\* C29 - Zero-token exclusion: an event whose input, output, cache-write and
\* cache-read counts are all zero or absent adds nothing to either window,
\* event count and oldest and newest timestamps included, even when it carries
\* a cost: the windows are those of the same files without such events.
C29_ZeroTokenExclusion ==
    \A k \in Snapshots :
        LET r == results[k]
            lines == LinesRead(r.files)
            plain == calculateLocalUsage(Without(r.files, ZeroTokens), r.now)
        IN  /\ r.ret.sessionUsage = plain.sessionUsage
            /\ r.ret.weeklyUsage = plain.weeklyUsage
            /\ (\A i \in 1..Len(lines) : ZeroTokens(lines[i]))
                 => /\ r.ret.sessionUsage = createEmptyAggregation
                    /\ r.ret.weeklyUsage = createEmptyAggregation

\* A call that read the zero-token event with a cost, an hour older than the
\* one event that counts.
C29_Witness ==
    \E k \in Snapshots :
        LET r == results[k]
            lines == LinesRead(r.files)
        IN  /\ \E i \in 1..Len(lines) : lines[i] = EvZero
            /\ \E i \in 1..Len(lines) : lines[i] = EvRecent
            /\ r.now = Now0
            /\ r.ret.sessionUsage.eventCount = 1
            /\ r.ret.sessionUsage.oldestEvent = Date(Now0 - 1)
            /\ r.ret.sessionUsage.costUSD < OneUSD

\* The timestamp field a line is read by: the first that is set.
TimestampField(event) ==
    IF Truthy(event.timestamp) THEN event.timestamp ELSE event.time

\* A line that is no JSON object, or whose timestamp is missing or does not parse.
Undecodable(line) ==
    \/ ~line.json
    \/ TimestampField(line).type = "undefined"
    \/ TimestampField(line).type = "number" /\ TimestampField(line).value = 0
    \/ TimestampField(line).type = "string" /\ ~TimestampField(line).parses

\* C30 - Undecodable records are dropped, not fatal: a line that is no JSON
\* object and an event whose timestamp is missing or unparseable add nothing
\* to either window, and the lines after them in the file and the files after
\* theirs are aggregated: the call returns its snapshot, with the windows of
\* the same files without such lines.
C30_UndecodableDropped ==
    /\ \A k \in 1..Len(results) : results[k].files # <<>> => ~results[k].ret.none
    /\ \A k \in Snapshots :
           LET r == results[k]
               plain == calculateLocalUsage(Without(r.files, Undecodable), r.now)
           IN  /\ r.ret.sessionUsage = plain.sessionUsage
               /\ r.ret.weeklyUsage = plain.weeklyUsage

\* A call over a file that begins with a line that is no JSON and a file that
\* begins with an event without a timestamp, each followed by an event that counts.
C30_Witness ==
    \E k \in Snapshots :
        LET r == results[k]
        IN  /\ Len(r.files) = 2
            /\ r.files[1].readable /\ Len(r.files[1].lines) = 2
            /\ r.files[1].lines[1] = Garbage
            /\ r.files[2].readable /\ Len(r.files[2].lines) = 2
            /\ r.files[2].lines[1] \in {EvNoTime, EvBadTime}
            /\ r.ret.weeklyUsage.eventCount = 2

\* The files with the timestamp of every line mapped by F.
Restamped(files, F(_)) ==
    [i \in 1..Len(files) |->
        [files[i] EXCEPT !.lines =
            [j \in 1..Len(files[i].lines) |->
                [files[i].lines[j] EXCEPT !.timestamp = F(files[i].lines[j].timestamp)]]]]

\* The hour a numeric timestamp denotes in the unit it was written in.
Denoted(field) ==
    IF field.type # "number" THEN field
    ELSE IF field.unit = "s" THEN IsoString(field.value)
    ELSE IsoString(field.value \div 1000)

\* The hour a numeric timestamp is read as: a count of seconds when it is
\* below 4102444800, a count of milliseconds otherwise.
Detected(field) ==
    IF field.type # "number" THEN field
    ELSE IF field.value < 1139568 THEN IsoString(field.value)
    ELSE IsoString(field.value \div 1000)

\* A numeric timestamp of an instant from 4102444800 ms after the epoch to
\* 4102444800 s after it.
InRange(field) ==
    field.type = "number" =>
        IF field.unit = "s" THEN field.value < 1139568 ELSE field.value >= 1139568

SameWindows(ret, files, now) ==
    /\ ret.sessionUsage = calculateLocalUsage(files, now).sessionUsage
    /\ ret.weeklyUsage = calculateLocalUsage(files, now).weeklyUsage

CostOf(event) ==
    IF event.costUSD.present THEN event.costUSD.value
    ELSE Carried(event).input_tokens * 60 + Carried(event).output_tokens * 300
           + Carried(event).cache_read_input_tokens * 6
           + Carried(event).cache_creation_input_tokens * 75

RECURSIVE SumCost(_, _)
SumCost(lines, cutoff) ==
    IF lines = <<>> THEN 0
    ELSE (IF InWindow(Head(lines), cutoff) THEN CostOf(Head(lines)) ELSE 0)
           + SumCost(Tail(lines), cutoff)

\* C32 - Cost precedence: for every included event the cost added to a window
\* is the cost the event carries whenever it carries one, and the weighted sum
\* of its four token counts only when it carries none.
C32_CostPrecedence ==
    \A k \in Snapshots :
        LET r == results[k]
            lines == LinesRead(r.files)
        IN  /\ r.ret.weeklyUsage.costUSD = SumCost(lines, r.now - 168)
            /\ r.ret.sessionUsage.costUSD = SumCost(lines, r.now - 5)

\* One window holds no more than another, count by count.
Within(a, b) ==
    /\ a.inputTokens <= b.inputTokens
    /\ a.outputTokens <= b.outputTokens
    /\ a.cacheCreationTokens <= b.cacheCreationTokens
    /\ a.cacheReadTokens <= b.cacheReadTokens
    /\ a.totalTokens <= b.totalTokens
    /\ a.costUSD <= b.costUSD
    /\ a.eventCount <= b.eventCount

TotalIsSum(a) ==
    a.totalTokens = a.inputTokens + a.outputTokens + a.cacheCreationTokens
                      + a.cacheReadTokens

\* C33 - The session window is a subset of the weekly window: every event
\* counted in the session window is counted in the weekly window, so each
\* token count, totalTokens, cost and eventCount of the session window is at
\* most the weekly window's, and in each window totalTokens is the sum of the
\* four token counts.
C33_SessionSubset ==
    \A k \in Snapshots :
        LET r == results[k]
            lines == LinesRead(r.files)
        IN  /\ \A i \in 1..Len(lines) :
                   InWindow(lines[i], r.now - 5) => InWindow(lines[i], r.now - 168)
            /\ r.ret.weeklyUsage.eventCount = CountEvents(lines, r.now - 168)
            /\ r.ret.sessionUsage.eventCount = CountEvents(lines, r.now - 5)
            /\ Within(r.ret.sessionUsage, r.ret.weeklyUsage)
            /\ TotalIsSum(r.ret.sessionUsage)
            /\ TotalIsSum(r.ret.weeklyUsage)

\* A call over an event in both windows that has cache tokens and an event in
\* the weekly window alone.
C33_Witness ==
    \E k \in Snapshots :
        LET r == results[k]
            lines == LinesRead(r.files)
        IN  /\ Len(lines) = 2 /\ lines[1] = EvSessionEdge /\ lines[2] = EvNegativeCost
            /\ r.now = Now0
            /\ r.ret.sessionUsage.eventCount = 1
            /\ r.ret.sessionUsage.cacheReadTokens = 200
            /\ r.ret.weeklyUsage.eventCount = 2
            /\ r.ret.weeklyUsage.totalTokens = 1800

\* The cost claim on the events that carry a cost above zero or none.
CostPrecedence_Positive ==
    \A k \in Snapshots :
        LET r == results[k]
            lines == LinesRead(r.files)
        IN  (\A i \in 1..Len(lines) :
                 lines[i].costUSD.present => lines[i].costUSD.value > 0)
              => /\ r.ret.weeklyUsage.costUSD = SumCost(lines, r.now - 168)
                 /\ r.ret.sessionUsage.costUSD = SumCost(lines, r.now - 5)

----------------------------------------------------------------------------
(* Properties of the orchestrator under restarts and cleanup *)

\* C34 - A running task keeps its context: whenever a worker started by
\* startSpecCreation or startTaskExecution is running for a task, the context
\* map holds an entry for the task; the cleanup timer armed by the exit of an
\* earlier worker deletes no context of a worker started afterwards.
C34_RunningKeepsContext ==
    \A t \in Tasks : processes[t] => HasContext(t)

\* C35 - No double spawn on restart: the re-start fired by a restart timer
\* finds no worker of the task registered, every spawn request for the task
\* before it having been followed by a kill request.
C35_NoDoubleSpawn ==
    [][\A t \in Tasks : TimerRestart(t) => ~processes[t]]_vars

\* C36 - A successful restart leads to a new worker: whenever restartTask
\* returns true for a task, a worker for the task is spawned later on, when
\* the 500 ms timer fires.
C36_RestartLeadsToSpawn ==
    \A t \in Tasks :
        (last.op = "restartTask" /\ last.task = t /\ last.ret = "true")
          ~> (last.task = t /\ last.spawned)

----------------------------------------------------------------------------
(* Properties of the monitor under overlapping cycles *)

\* C37 - At most one fetch cycle at a time across ticks and forced refreshes:
\* the fetch of a forceRefresh is never outstanding together with the fetch of
\* a timer tick.
C37_OneFetchCycle ==
    ~(InFlight("tick") # {} /\ InFlight("refresh") # {})

\* C38 - The in-progress guard is always released: the guard is set exactly
\* while the fetch of a tick is outstanding, every tick that has passed the
\* guard clears it on the way out (no active profile, failed fetch, swap or
\* none, thrown error), and once its I/O returns the guard is clear again.
C38_GuardReleased ==
    /\ [](isChecking <=> InFlight("tick") # {})
    /\ [][(mlast'.kind = "tick" /\ mlast'.ticks = 1 /\ ~mlast'.suppressed
             /\ InFlight("tick")' = {}) => ~isChecking']_vars
    /\ [][Resolved("tick") => ~isChecking']_vars
    /\ (isChecking ~> ~isChecking)

\* A tick whose fetch failed in the API and in the local fallback has cleared
\* the guard.
C38_Witness ==
    /\ mlast.op = "localDone" /\ mlast.kind = "tick" /\ mlast.resolved
    /\ mlast.fetched = NoUsage
    /\ apiFailedSinceRefresh
    /\ ~isChecking

SwapEvents ==
    {"proactive-swap-completed", "proactive-swap-failed", "show-swap-notification"}

\* C39 - A forced refresh never fails over: no step of a forceRefresh reads
\* the settings or asks for an alternative profile, changes the active profile
\* or emits 'proactive-swap-completed', 'proactive-swap-failed' or
\* 'show-swap-notification', whatever percentages it fetched; a swap is made
\* by a tick alone.
C39_RefreshNeverSwaps ==
    /\ [][mlast'.kind = "refresh"
            => /\ activeProfile' = activeProfile
               /\ mlast'.settings = NoSettings
               /\ mlast'.best = NotAsked
               /\ \A e \in SwapEvents : Places(mlast'.events, e) = {}]_vars
    /\ [][(SwapAttempted \/ \E e \in SwapEvents : Places(mlast'.events, e) # {})
            => mlast'.kind = "tick"]_vars

\* A forced refresh that fetched a session percentage of 95 and left the
\* active profile as it was.
C39_Witness ==
    /\ mlast.kind = "refresh" /\ mlast.resolved /\ mlast.fetched # NoUsage
    /\ mlast.fetched.sessionPercent = 95
    /\ mlast.ret = mlast.fetched
    /\ mlast.events = <<"usage-updated">>
    /\ activeProfile = mlast.fetched.profileId

\* C40 - Calibration is never fed a zero percentage: whenever the monitor
\* invokes updateUsageCalibration, the session and the weekly authoritative
\* percentage it passes are both greater than 0.
C40_CalibrationNonZero ==
    [][mlast'.calibrated
         => /\ mlast'.fetched.sessionPercent > 0
            /\ mlast'.fetched.weeklyPercent > 0]_vars

====
